--------------------------- MODULE Spec2Model ---------------------------
(***************************************************************************)
(* make-project-prompt: alias expansion, the order-preserving argument     *)
(* interpreter, the file selector and the content assembler.               *)
(*                                                                         *)
(* Strings of the program are modelled as sequences of one-character       *)
(* strings, so that prefix tests, trimming, splitting and glob matching    *)
(* are computed character by character as the code computes them.          *)
(***************************************************************************)
EXTENDS Integers, Sequences, FiniteSets, TLC

VARIABLES
    pc,         \* position of the run / of the function under check
    file,       \* matchesPattern: the path argument
    pattern,    \* matchesPattern: the pattern argument
    matched,    \* matchesPattern: the returned boolean
    files,      \* filterAndEnrichFiles: the candidate list (git ls-files output)
    config,     \* files.Config: IncludePatterns, ExcludePatterns, ForceIncludePatterns
    fs,         \* what os.Stat, IsTextFile and os.ReadFile answer for a candidate
    result,     \* filterAndEnrichFiles: the returned []FileInfo
    doc,        \* the blocks written to the strings.Builder
    fileCount,  \* the file counter returned by writeFiles / Generate
    osArgs,     \* os.Args[1:] as the program is started
    args,       \* os.Args[1:] after main has replaced it by the expanded arguments
    aliases,    \* cfg.Aliases: alias name -> option string (config.LoadAliases)
    cli,        \* the package-level option variables of main, and the locals of customParseArgs
    contentItems, \* processFilesAndGeneratePrompt: the items handed to generator.ContentItems
    err,        \* the error a stage has returned (NoErr when none)
    sinks,      \* what has been written to stdout, to the output file and to the clipboard
    clipboard,  \* the system clipboard: read by -c, written by the default sink
    configFiles, \* the .mpp.txt of each directory from the working directory up to the root
    locals,     \* the local variables of the function whose loop is in progress
    diag,       \* the warnings written to os.Stderr
    generator   \* prompt.Generator: the object between NewGenerator and Generate

selVars == <<file, pattern, matched, files, config, fs, result, doc, fileCount>>

cliVars == <<osArgs, args, aliases, cli, contentItems, err, sinks, clipboard>>

cfgVars == <<configFiles, locals, diag, generator>>

vars == <<pc, selVars, cliVars, cfgVars>>

-----------------------------------------------------------------------------
(* Bounds of the model.                                                    *)

\* longest candidate list drawn for the file selector
MaxFiles == 1
\* most patterns of a pattern set drawn for the file selector, over its three lists
MaxPats == 2
\* longest token stream handed to customParseArgs
MaxTokens == 4
\* most argument groups of a command line, after an optional --raw
MaxArgs == 3
\* most argument groups of a command line of SpecRun, after an optional --raw
MaxRunArgs == 2

(* Program constants.                                                      *)

\* prompt.NewGenerator: 1MB default max file size
MaxFileSize == 1048576

-----------------------------------------------------------------------------
(* Package strings, on sequences of characters.                            *)

Range(s) == { s[k] : k \in 1..Len(s) }

Min(S) == CHOOSE x \in S : \A y \in S : x <= y

From(s, k) == SubSeq(s, k, Len(s))

HasPrefix(s, p) == Len(p) <= Len(s) /\ SubSeq(s, 1, Len(p)) = p

HasSuffix(s, p) == Len(p) <= Len(s) /\ From(s, Len(s) - Len(p) + 1) = p

TrimPrefix(s, p) == IF HasPrefix(s, p) THEN From(s, Len(p) + 1) ELSE s

TrimSuffix(s, p) == IF HasSuffix(s, p) THEN SubSeq(s, 1, Len(s) - Len(p)) ELSE s

\* strings.Index, 1-based; 0 when sub does not occur in s
Index(s, sub) ==
    LET at == { k \in 1..(Len(s) - Len(sub) + 1) : SubSeq(s, k, k + Len(sub) - 1) = sub }
    IN  IF at = {} THEN 0 ELSE Min(at)

Contains(s, sub) == Index(s, sub) # 0

\* strings.Split with a non-empty separator
RECURSIVE Split(_, _)
Split(s, sep) ==
    LET k == Index(s, sep)
    IN  IF k = 0 THEN <<s>>
        ELSE <<SubSeq(s, 1, k - 1)>> \o Split(From(s, k + Len(sep)), sep)

RECURSIVE Join(_, _)
Join(parts, sep) ==
    IF parts = <<>> THEN <<>>
    ELSE IF Len(parts) = 1 THEN parts[1]
    ELSE parts[1] \o sep \o Join(Tail(parts), sep)

Slash == <<"/">>
StarStar == <<"*", "*">>

-----------------------------------------------------------------------------
(* path/filepath.Match, for patterns without '[' and '\': the patterns of   *)
(* the model hold literal characters, '*', '?' and '/', for which Match     *)
(* never returns ErrBadPattern.                                             *)

\* scanChunk: strip the leading stars, cut the chunk at the next star
scanChunk(p) ==
    LET n == CHOOSE n \in 0..Len(p) :
                 /\ \A k \in 1..n : p[k] = "*"
                 /\ (n = Len(p) \/ p[n + 1] # "*")
        q == From(p, n + 1)
        m == CHOOSE m \in 0..Len(q) :
                 /\ \A k \in 1..m : q[k] # "*"
                 /\ (m = Len(q) \/ q[m + 1] = "*")
    IN  [star |-> n > 0, chunk |-> SubSeq(q, 1, m), rest |-> From(q, m + 1)]

\* matchChunk: the chunk must match a prefix of s; '?' takes any one
\* character but the separator
RECURSIVE matchChunk(_, _)
matchChunk(chunk, s) ==
    IF chunk = <<>> THEN [ok |-> TRUE, rest |-> s]
    ELSE IF s = <<>> THEN [ok |-> FALSE, rest |-> <<>>]
    ELSE IF chunk[1] = "?"
         THEN IF s[1] = "/" THEN [ok |-> FALSE, rest |-> <<>>]
              ELSE matchChunk(Tail(chunk), Tail(s))
    ELSE IF chunk[1] # s[1] THEN [ok |-> FALSE, rest |-> <<>>]
    ELSE matchChunk(Tail(chunk), Tail(s))

RECURSIVE Match(_, _)
Match(pat, name) ==
    IF pat = <<>> THEN name = <<>>
    ELSE
      LET sc == scanChunk(pat)
          m  == matchChunk(sc.chunk, name)
          \* "Look for match skipping i+1 bytes. Cannot skip /."
          skips == { j \in 1..Len(name) :
                       /\ \A k \in 1..j : name[k] # "/"
                       /\ LET t == matchChunk(sc.chunk, From(name, j + 1))
                          IN  t.ok /\ ~(sc.rest = <<>> /\ t.rest # <<>>) }
      IN  IF sc.star /\ sc.chunk = <<>>
            THEN ~Contains(name, Slash)
          ELSE IF m.ok /\ (m.rest = <<>> \/ sc.rest # <<>>)
            THEN Match(sc.rest, m.rest)
          ELSE IF sc.star /\ skips # {}
            THEN Match(sc.rest, matchChunk(sc.chunk, From(name, Min(skips) + 1)).rest)
          ELSE FALSE

-----------------------------------------------------------------------------
(* Package files.                                                          *)

\* the "**" branch of matchesPattern: prefix, then the suffix pattern
\* against the remainder and against every rightward sub-path of it
doubleStarMatchDirectOnly(f, p) ==
    LET parts == Split(p, StarStar)
    IN  /\ Len(parts) = 2
        /\ HasPrefix(f, parts[1])
        /\ Match(TrimPrefix(parts[2], Slash),
                 TrimPrefix(TrimPrefix(f, parts[1]), Slash))
doubleStarMatch(f, p) ==
    LET parts == Split(p, StarStar)
    IN  /\ Len(parts) = 2
        /\ LET prefix    == parts[1]
               suffix    == TrimPrefix(parts[2], Slash)
               remaining == TrimPrefix(TrimPrefix(f, prefix), Slash)
               pathParts == Split(remaining, Slash)
           IN  /\ HasPrefix(f, prefix)
               /\ \/ Match(suffix, remaining)
                  \/ \E i \in 1..Len(pathParts) :
                        Match(suffix, Join(From(pathParts, i), Slash))

matchesPattern(f, p) ==
    \/ f = p
    \/ Match(p, f)
    \/ (Contains(p, StarStar) /\ doubleStarMatch(f, p))

matchesAny(f, patterns) == \E k \in 1..Len(patterns) : matchesPattern(f, patterns[k])

\* the exclusion loop: the pattern without its trailing slash, as a glob or
\* as a directory prefix
normalizedPatternKeepsSlash(excludePattern) == excludePattern
normalizedPattern(excludePattern) == TrimSuffix(excludePattern, Slash)

isExcluded(f, excludePatterns) ==
    \E k \in 1..Len(excludePatterns) :
        LET n == normalizedPattern(excludePatterns[k])
        IN  matchesPattern(f, n) \/ HasPrefix(f, n \o Slash)

\* isIncluded after the force and include checks
isIncludedByDefaultDespiteInclude(f, cfg, isForced) ==
    \/ isForced
    \/ matchesAny(f, cfg.IncludePatterns)
    \/ Len(cfg.ForceIncludePatterns) = 0
isIncludedByDefaultDespiteForce(f, cfg, isForced) ==
    \/ isForced
    \/ matchesAny(f, cfg.IncludePatterns)
    \/ Len(cfg.IncludePatterns) = 0
isIncluded(f, cfg, isForced) ==
    \/ isForced
    \/ /\ Len(cfg.IncludePatterns) > 0
       /\ matchesAny(f, cfg.IncludePatterns)
    \/ /\ Len(cfg.IncludePatterns) = 0
       /\ Len(cfg.ForceIncludePatterns) = 0

\* os.Stat(file) succeeds
statOk(f) == fs[f].stat

\* IsTextFile(file): decided by the MIME database, the file(1) tool and the
\* file's first bytes, all outside the program
IsTextFile(f) == fs[f].text

\* "Check for exclusion (but not if force included)"
excludedAlsoWhenForced(f, cfg, isForced) == isExcluded(f, cfg.ExcludePatterns)
excluded(f, cfg, isForced) == ~isForced /\ isExcluded(f, cfg.ExcludePatterns)

\* "Skip non-text files unless forced"
textRejectedNever(f, isForced) == FALSE
textRejected(f, isForced) == ~isForced /\ ~IsTextFile(f)

\* the FileInfo appended for a file that passes, <<>> for a file the loop skips
enrich(f, cfg) ==
    LET isForced == matchesAny(f, cfg.ForceIncludePatterns)
    IN  IF ~isIncluded(f, cfg, isForced) THEN <<>>
        ELSE IF excluded(f, cfg, isForced) THEN <<>>
        ELSE IF ~statOk(f) THEN <<>>
        ELSE IF textRejected(f, isForced) THEN <<>>
        ELSE << [Path      |-> f,
                 IsText    |-> TRUE,
                 IsForced  |-> isForced,
                 Size      |-> fs[f].size,
                 IsRegular |-> fs[f].regular] >>

RECURSIVE filterAndEnrichFiles(_, _)
filterAndEnrichFiles(fileList, cfg) ==
    IF fileList = <<>> THEN <<>>
    ELSE enrich(Head(fileList), cfg) \o filterAndEnrichFiles(Tail(fileList), cfg)

-----------------------------------------------------------------------------
(* Package prompt.                                                         *)

\* writeFiles: does the loop write this file's block?
isWrittenBelowMax(info, maxFileSize) ==
    /\ info.IsRegular
    /\ (info.IsForced \/ info.Size < maxFileSize)
    /\ (info.IsForced \/ info.IsText)
    /\ fs[info.Path].readable
isWritten(info, maxFileSize) ==
    /\ info.IsRegular
    /\ (info.IsForced \/ info.Size <= maxFileSize)
    /\ (info.IsForced \/ info.IsText)
    /\ fs[info.Path].readable

FileBlock(path) == [kind |-> "file", content |-> path]

RECURSIVE writeFilesUntilSkip(_, _)
writeFilesUntilSkip(infos, maxFileSize) ==
    IF infos = <<>> \/ ~isWritten(Head(infos), maxFileSize) THEN <<>>
    ELSE <<FileBlock(Head(infos).Path)>> \o writeFilesUntilSkip(Tail(infos), maxFileSize)

RECURSIVE writeFiles(_, _)
writeFiles(infos, maxFileSize) ==
    IF infos = <<>> THEN <<>>
    ELSE (IF isWritten(Head(infos), maxFileSize)
            THEN <<FileBlock(Head(infos).Path)>> ELSE <<>>)
         \o writeFiles(Tail(infos), maxFileSize)

\* a line written to os.Stderr about one file
Skipping(kind, path) == [kind |-> kind, path |-> path]

\* filterAndEnrichFiles: the warning of a file that passes the patterns and
\* cannot be stat'ed; files.Config carries no quiet flag
statWarning(f, cfg) ==
    LET isForced == matchesAny(f, cfg.ForceIncludePatterns)
    IN  IF isIncluded(f, cfg, isForced) /\ ~excluded(f, cfg, isForced) /\ ~statOk(f)
        THEN <<Skipping("Warning: Cannot stat file", f)>>
        ELSE <<>>

RECURSIVE statWarnings(_, _)
statWarnings(fileList, cfg) ==
    IF fileList = <<>> THEN <<>>
    ELSE statWarning(Head(fileList), cfg) \o statWarnings(Tail(fileList), cfg)

\* writeFiles: the line about a skipped file, under if !g.QuietMode
skipLine(info, maxFileSize) ==
    IF ~info.IsRegular THEN <<Skipping("Warning: not a regular file", info.Path)>>
    ELSE IF ~info.IsForced /\ info.Size > maxFileSize
    THEN <<Skipping("Info: too large", info.Path)>>
    ELSE IF ~info.IsForced /\ ~info.IsText
    THEN <<Skipping("Info: non-text file", info.Path)>>
    ELSE IF ~fs[info.Path].readable
    THEN <<Skipping("Warning: Failed to read content", info.Path)>>
    ELSE <<>>

RECURSIVE skipLines(_, _, _)
skipLines(infos, maxFileSize, quietMode) ==
    IF infos = <<>> \/ quietMode THEN <<>>
    ELSE skipLine(Head(infos), maxFileSize) \o skipLines(Tail(infos), maxFileSize, quietMode)

-----------------------------------------------------------------------------
(* The strings of the model.                                               *)

p_a_go      == <<"a", ".", "g", "o">>
p_b_bin     == <<"b", ".", "b", "i", "n">>
p_docs_r_md == <<"d", "o", "c", "s", "/", "r", ".", "m", "d">>
p_src_a_go  == <<"s", "r", "c", "/", "a", ".", "g", "o">>
p_src_x_a_go == <<"s", "r", "c", "/", "x", "/", "a", ".", "g", "o">>
p_src_xy_a_go == <<"s", "r", "c", "/", "x", "/", "y", "/", "a", ".", "g", "o">>
p_src_a_md  == <<"s", "r", "c", "/", "a", ".", "m", "d">>
p_srcs_b_go == <<"s", "r", "c", "s", "/", "b", ".", "g", "o">>

g_src       == <<"s", "r", "c">>
g_src_slash == <<"s", "r", "c", "/">>
g_star_go   == <<"*", ".", "g", "o">>
g_src_star_go == <<"s", "r", "c", "/", "*", ".", "g", "o">>
g_src_ss_go == <<"s", "r", "c", "/", "*", "*", "/", "*", ".", "g", "o">>
g_src_ss_a_go == <<"s", "r", "c", "/", "*", "*", "/", "a", ".", "g", "o">>
g_src_ss_ss_a_go == <<"s", "r", "c", "/", "*", "*", "/", "*", "*", "/", "a", ".", "g", "o">>
g_src_ss_y_go == <<"s", "r", "c", "/", "*", "*", "/", "y", "/", "*", ".", "g", "o">>
g_src_ss_x_ss_go == <<"s", "r", "c", "/", "x", "/", "*", "*", "/", "y", "/", "*", "*", "/", "*", ".", "g", "o">>
g_ss_go     == <<"*", "*", "/", "*", ".", "g", "o">>
g_src_ss_q_go == <<"s", "r", "c", "/", "*", "*", "/", "?", ".", "g", "o">>
g_docs_md   == <<"d", "o", "c", "s", "/", "*", ".", "m", "d">>
g_docs_ss_md == <<"d", "o", "c", "s", "/", "*", "*", "/", "*", ".", "m", "d">>
g_b_bin     == p_b_bin
g_a_go      == p_a_go

NoFs == <<>>
NoConfig == [IncludePatterns |-> <<>>, ExcludePatterns |-> <<>>, ForceIncludePatterns |-> <<>>]

-----------------------------------------------------------------------------
(* Package config.                                                         *)

\* ExpandAlias: the loop over the characters of the option string, with the
\* tokens closed so far, the token under construction and the quote state
RECURSIVE expandAliasFrom(_, _, _, _, _, _)
expandAliasFrom(options, k, tokens, current, inQuotes, quoteChar) ==
    IF k > Len(options)
    THEN IF Len(current) > 0 THEN Append(tokens, current) ELSE tokens
    ELSE LET ch == options[k] IN
         IF inQuotes
         THEN IF ch = quoteChar
              THEN expandAliasFrom(options, k + 1, tokens, current, FALSE, "")
              ELSE expandAliasFrom(options, k + 1, tokens, Append(current, ch), TRUE, quoteChar)
         ELSE IF ch = "\"" \/ ch = "'"
              THEN expandAliasFrom(options, k + 1, tokens, current, TRUE, ch)
              ELSE IF ch = " " \/ ch = "\t"
                   THEN IF Len(current) > 0
                        THEN expandAliasFrom(options, k + 1, Append(tokens, current), <<>>, FALSE, "")
                        ELSE expandAliasFrom(options, k + 1, tokens, current, FALSE, "")
                   ELSE expandAliasFrom(options, k + 1, tokens, Append(current, ch), FALSE, "")

ExpandAliasInQuotes(options) == expandAliasFrom(options, 1, <<>>, <<>>, TRUE, "\"")
ExpandAlias(options) == expandAliasFrom(options, 1, <<>>, <<>>, FALSE, "")

-----------------------------------------------------------------------------
(* Package main: errors and flag names.                                    *)

NoErr == [msg |-> "", detail |-> <<>>]

\* fmt.Errorf: the fixed text of the message and the value formatted into it
Errorf(msg, detail) == [msg |-> msg, detail |-> detail]

n_a      == <<"a">>
n_c      == <<"c">>
n_e      == <<"e">>
n_f      == <<"f">>
n_h      == <<"h">>
n_i      == <<"i">>
n_q      == <<"q">>
n_qf     == <<"q", "f">>
n_output == <<"o", "u", "t", "p", "u", "t">>
n_stdout == <<"s", "t", "d", "o", "u", "t">>
n_quiet  == <<"q", "u", "i", "e", "t">>
n_raw    == <<"r", "a", "w">>
n_dry_run == <<"d", "r", "y", "-", "r", "u", "n">>
n_list_aliases == <<"l", "i", "s", "t", "-", "a", "l", "i", "a", "s", "e", "s">>

Dash(name) == <<"-">> \o name

DashDash(name) == <<"-", "-">> \o name

\* arg == "-name" || arg == "--name"
IsFlagNamed(arg, name) == arg = Dash(name) \/ arg = DashDash(name)

\* customParseArgs: isFlag
isFlag(arg) == HasPrefix(arg, <<"-">>)

\* "[YOUR QUESTION HERE]"
Placeholder == <<"[", "Y", "O", "U", "R", " ", "Q", "U", "E", "S", "T", "I", "O", "N", " ", "H", "E", "R", "E", "]">>

-----------------------------------------------------------------------------
(* Package main: expandAliasesInArgs.                                      *)

\* expanded = append(expanded, aliasArgs...)
spliceAliasInFront(expanded, aliasArgs) == aliasArgs \o expanded
spliceAlias(expanded, aliasArgs) == expanded \o aliasArgs

\* return nil, fmt.Errorf("alias '%s' not found", aliasName)
aliasNotFoundUnnamed(aliasName) == [expanded |-> <<>>, err |-> Errorf("alias not found", <<>>)]
aliasNotFound(aliasName) == [expanded |-> <<>>, err |-> Errorf("alias not found", aliasName)]

\* the loop of expandAliasesInArgs from index i (1-based), over alias map al
RECURSIVE expandFrom(_, _, _, _)
expandFrom(a, i, expanded, al) ==
    IF i > Len(a) THEN [expanded |-> expanded, err |-> NoErr]
    ELSE IF IsFlagNamed(a[i], n_a)
         THEN IF i + 1 > Len(a)
              THEN [expanded |-> <<>>, err |-> Errorf("flag -a requires an argument", <<>>)]
              ELSE IF a[i + 1] \notin DOMAIN al
                   THEN aliasNotFound(a[i + 1])
                   ELSE expandFrom(a, i + 2, spliceAlias(expanded, ExpandAlias(al[a[i + 1]])), al)
         ELSE expandFrom(a, i + 1, Append(expanded, a[i]), al)

expandAliasesInArgs(a, al) == expandFrom(a, 1, <<>>, al)

-----------------------------------------------------------------------------
(* Package main: customParseArgs.                                          *)

\* the package-level option variables as the process starts, and the locals
\* of customParseArgs (orderCounter, currentFlag, the loop index i, 1-based)
ZeroOptions ==
    [ includePatterns      |-> <<>>,
      excludePatterns      |-> <<>>,
      forceIncludePatterns |-> <<>>,
      questions            |-> <<>>,
      questionFiles        |-> <<>>,
      useClipboard         |-> FALSE,
      outputFile           |-> <<>>,
      useStdout            |-> FALSE,
      quietMode            |-> FALSE,
      showHelp             |-> FALSE,
      dryRun               |-> FALSE,
      aliasName            |-> <<>>,
      listAliases          |-> FALSE,
      rawMode              |-> FALSE,
      argOrder             |-> <<>>,
      orderCounter         |-> 0,
      currentFlag          |-> <<>>,
      i                    |-> 1 ]

\* argOrder = append(argOrder, argOrderItem{...}); orderCounter++
appendOrderUnlogged(st, type, content) == st
appendOrder(st, type, content) ==
    [st EXCEPT !.argOrder = Append(@, [Type |-> type, Content |-> content,
                                       Order |-> st.orderCounter]),
               !.orderCounter = @ + 1]

\* a value of one of the five multi-valued flags: the list append and its log entry
takeValueLoggingExclude(st, flag, value) ==
    IF IsFlagNamed(flag, n_i)
    THEN appendOrder([st EXCEPT !.includePatterns = Append(@, value)], "include", value)
    ELSE IF IsFlagNamed(flag, n_e)
    THEN appendOrder([st EXCEPT !.excludePatterns = Append(@, value)], "exclude", value)
    ELSE IF IsFlagNamed(flag, n_f)
    THEN appendOrder([st EXCEPT !.forceIncludePatterns = Append(@, value)], "force_include", value)
    ELSE IF IsFlagNamed(flag, n_q)
    THEN appendOrder([st EXCEPT !.questions = Append(@, value)], "question", value)
    ELSE IF IsFlagNamed(flag, n_qf)
    THEN appendOrder([st EXCEPT !.questionFiles = Append(@, value)], "question_file", value)
    ELSE st
takeValueReplacing(st, flag, value) ==
    IF IsFlagNamed(flag, n_i)
    THEN appendOrder([st EXCEPT !.includePatterns = <<value>>], "include", value)
    ELSE IF IsFlagNamed(flag, n_e)
    THEN [st EXCEPT !.excludePatterns = <<value>>]
    ELSE IF IsFlagNamed(flag, n_f)
    THEN appendOrder([st EXCEPT !.forceIncludePatterns = <<value>>], "force_include", value)
    ELSE IF IsFlagNamed(flag, n_q)
    THEN appendOrder([st EXCEPT !.questions = <<value>>], "question", value)
    ELSE IF IsFlagNamed(flag, n_qf)
    THEN appendOrder([st EXCEPT !.questionFiles = <<value>>], "question_file", value)
    ELSE st
takeValue(st, flag, value) ==
    IF IsFlagNamed(flag, n_i)
    THEN appendOrder([st EXCEPT !.includePatterns = Append(@, value)], "include", value)
    ELSE IF IsFlagNamed(flag, n_e)
    THEN [st EXCEPT !.excludePatterns = Append(@, value)]
    ELSE IF IsFlagNamed(flag, n_f)
    THEN appendOrder([st EXCEPT !.forceIncludePatterns = Append(@, value)], "force_include", value)
    ELSE IF IsFlagNamed(flag, n_q)
    THEN appendOrder([st EXCEPT !.questions = Append(@, value)], "question", value)
    ELSE IF IsFlagNamed(flag, n_qf)
    THEN appendOrder([st EXCEPT !.questionFiles = Append(@, value)], "question_file", value)
    ELSE st

\* the switch on currentFlag for the value that follows a flag
flagValue(st, flag, value) ==
    IF IsFlagNamed(flag, n_output) THEN [st EXCEPT !.outputFile = value]
    ELSE IF IsFlagNamed(flag, n_a) THEN [st EXCEPT !.aliasName = value]
    ELSE takeValue(st, flag, value)

\* the boolean flags, which take no value
booleanFlagUnlogged(st, flag) ==
    IF IsFlagNamed(flag, n_h) THEN [st EXCEPT !.showHelp = TRUE]
    ELSE IF IsFlagNamed(flag, n_c) THEN [st EXCEPT !.useClipboard = TRUE]
    ELSE IF IsFlagNamed(flag, n_stdout) THEN [st EXCEPT !.useStdout = TRUE]
    ELSE IF IsFlagNamed(flag, n_quiet) THEN [st EXCEPT !.quietMode = TRUE]
    ELSE IF IsFlagNamed(flag, n_dry_run) THEN [st EXCEPT !.dryRun = TRUE]
    ELSE IF IsFlagNamed(flag, n_list_aliases) THEN [st EXCEPT !.listAliases = TRUE]
    ELSE [st EXCEPT !.rawMode = TRUE]
booleanFlag(st, flag) ==
    IF IsFlagNamed(flag, n_h) THEN [st EXCEPT !.showHelp = TRUE]
    ELSE IF IsFlagNamed(flag, n_c)
    THEN appendOrder([st EXCEPT !.useClipboard = TRUE], "clipboard", <<>>)
    ELSE IF IsFlagNamed(flag, n_stdout) THEN [st EXCEPT !.useStdout = TRUE]
    ELSE IF IsFlagNamed(flag, n_quiet) THEN [st EXCEPT !.quietMode = TRUE]
    ELSE IF IsFlagNamed(flag, n_dry_run) THEN [st EXCEPT !.dryRun = TRUE]
    ELSE IF IsFlagNamed(flag, n_list_aliases) THEN [st EXCEPT !.listAliases = TRUE]
    ELSE [st EXCEPT !.rawMode = TRUE]

isBooleanFlag(flag) ==
    \E n \in { n_h, n_c, n_stdout, n_quiet, n_dry_run, n_list_aliases, n_raw } :
        IsFlagNamed(flag, n)

\* if i+1 < len(args) && !isFlag(args[i+1])
hasValueAnyToken(st, a) == st.i + 1 <= Len(a)
hasValue(st, a) == st.i + 1 <= Len(a) /\ ~isFlag(a[st.i + 1])

\* one iteration of the loop of customParseArgs over the tokens a
parseIteration(st, a) ==
    LET arg == a[st.i] IN
    IF isFlag(arg)
    THEN LET s1 == [st EXCEPT !.currentFlag = arg] IN
         IF isBooleanFlag(arg)
         THEN [booleanFlag(s1, arg) EXCEPT !.i = @ + 1]
         ELSE IF hasValue(s1, a)
              THEN [flagValue(s1, arg, a[st.i + 1]) EXCEPT !.i = @ + 2]
              ELSE [s1 EXCEPT !.i = @ + 1]
    ELSE [takeValue(st, st.currentFlag, arg) EXCEPT !.i = @ + 1]

RECURSIVE parseFrom(_, _)
parseFrom(st, a) == IF st.i > Len(a) THEN st ELSE parseFrom(parseIteration(st, a), a)

\* customParseArgs: argOrder and orderCounter are reset, the loop runs over os.Args[1:]
customParseArgs(st, a) ==
    parseFrom([st EXCEPT !.argOrder = <<>>, !.orderCounter = 0,
                         !.currentFlag = <<>>, !.i = 1], a)

-----------------------------------------------------------------------------
(* Package files: ListGitFiles.                                            *)

\* the repository of the runs: what git ls-files -co --exclude-standard prints,
\* and the paths .gitignore hides
RepoListed == <<p_a_go, p_docs_r_md, p_src_xy_a_go>>

RepoIgnored == <<p_b_bin>>

\* git ls-files -co --exclude-standard [--ignored]: with --ignored, git prints
\* only the paths an exclude rule matches
gitLsFiles(withIgnored) == IF withIgnored THEN RepoIgnored ELSE RepoListed

\* os.Stat(path) returns no error
exists(path) == path \in DOMAIN fs /\ fs[path].stat

\* the loop that appends the force patterns that are files on disk
RECURSIVE addForcedPaths(_, _)
addForcedPaths(fileList, patterns) ==
    IF patterns = <<>> THEN fileList
    ELSE LET p == Head(patterns) IN
         addForcedPaths(IF exists(p) /\ p \notin Range(fileList)
                          THEN Append(fileList, p) ELSE fileList,
                        Tail(patterns))

ListGitFiles(cfg) ==
    filterAndEnrichFiles(
        IF Len(cfg.ForceIncludePatterns) > 0
        THEN addForcedPaths(gitLsFiles(TRUE), cfg.ForceIncludePatterns)
        ELSE gitLsFiles(FALSE),
        cfg)

-----------------------------------------------------------------------------
(* Package prompt: the generator.                                          *)

\* prompt.ContentItem, with the fields processFilesAndGeneratePrompt sets
QuestionItem(content, order) ==
    [Type |-> "question", Content |-> content, FilePatterns |-> <<>>,
     Files |-> <<>>, Order |-> order]

FileGroupItem(p, infos, order) ==
    [Type |-> "file_group", Content |-> <<>>, FilePatterns |-> <<p>>,
     Files |-> infos, Order |-> order]

\* a piece of fixed text written to the builder
Block(kind) == [kind |-> kind, content |-> <<>>]

\* a role message, an extra context or closing text written to the builder
TextBlock(kind, text) == [kind |-> kind, content |-> text]

\* a question written to the builder, on a line of its own
QuestionBlock(text) == [kind |-> "question", content |-> text]

NewGenerator(fileInfos, question, quietMode) ==
    [ Files        |-> fileInfos,
      Question     |-> question,
      Questions    |-> IF question # <<>> /\ question # Placeholder
                       THEN <<QuestionItem(question, 0)>> ELSE <<>>,
      MaxFileSize  |-> MaxFileSize,
      QuietMode    |-> quietMode,
      RoleMessage  |-> <<>>,
      ExtraContext |-> <<>>,
      LastWords    |-> <<>>,
      RawMode      |-> FALSE,
      IncludeTree  |-> TRUE,
      ContentItems |-> <<>> ]

\* for _, q := range g.Questions { WriteString(q.Content ...) }
questionBlocks(questions) ==
    [k \in 1..Len(questions) |-> QuestionBlock(questions[k].Content)]

generateQuestionsFirst(g) ==
    [promptText |-> questionBlocks(g.Questions) \o writeFiles(g.Files, g.MaxFileSize),
     fileCount  |-> Len(writeFiles(g.Files, g.MaxFileSize))]
generateDefaultMode(g) ==
    LET fileBlocks == writeFiles(g.Files, g.MaxFileSize)
        promptText ==
            (IF g.RoleMessage # <<>> THEN <<TextBlock("role", g.RoleMessage)>> ELSE <<>>)
         \o <<Block("introduction")>>
         \o (IF g.IncludeTree THEN <<Block("structure_header"), Block("tree")>> ELSE <<>>)
         \o <<Block("files_header")>>
         \o fileBlocks
         \o <<Block("end_of_files")>>
         \o (IF g.ExtraContext # <<>> THEN <<TextBlock("extra", g.ExtraContext)>> ELSE <<>>)
         \o (IF Len(g.Questions) > 0
               THEN <<Block("question_header")>> \o questionBlocks(g.Questions)
               ELSE IF g.Question # <<>> /\ g.Question # Placeholder
                    THEN <<Block("question_header"), QuestionBlock(g.Question)>>
                    ELSE <<>>)
         \o (IF g.LastWords # <<>> THEN <<TextBlock("last_words", g.LastWords)>> ELSE <<>>)
    IN [promptText |-> promptText, fileCount |-> Len(fileBlocks)]

\* all files, then all of g.Questions; g.ContentItems is not read
generateRawWithRole(g) ==
    [promptText |-> (IF g.RoleMessage # <<>> THEN <<TextBlock("role", g.RoleMessage)>> ELSE <<>>)
                    \o writeFiles(g.Files, g.MaxFileSize) \o questionBlocks(g.Questions),
     fileCount  |-> Len(writeFiles(g.Files, g.MaxFileSize))]
generateRawMode(g) ==
    LET fileBlocks == writeFiles(g.Files, g.MaxFileSize)
    IN [promptText |-> fileBlocks \o questionBlocks(g.Questions),
        fileCount |-> Len(fileBlocks)]

Generate(g) == IF g.RawMode THEN generateRawMode(g) ELSE generateDefaultMode(g)

-----------------------------------------------------------------------------
(* Package main: processFilesAndGeneratePrompt.                            *)

\* the text of a file on disk: the question file holds "F", any other file
\* is identified by its path
p_question_file == <<".", ".", "/", "f">>

FileText(path) == IF path = p_question_file THEN <<"F">> ELSE path

\* os.ReadFile of a question file, and the test for an empty file
readQuestionFile(path) ==
    IF ~(exists(path) /\ fs[path].readable)
    THEN [err |-> Errorf("error reading from file", path), content |-> <<>>]
    ELSE IF fs[path].size = 0
         THEN [err |-> Errorf("file is empty", path), content |-> <<>>]
         ELSE [err |-> NoErr, content |-> FileText(path)]

\* clipboard.ReadAll, and the test for an empty clipboard
readClipboard(clip) ==
    IF ~clip.ok
    THEN [err |-> Errorf("error reading from clipboard", <<>>), content |-> <<>>]
    ELSE IF clip.content = <<>>
         THEN [err |-> Errorf("clipboard is empty", <<>>), content |-> <<>>]
         ELSE [err |-> NoErr, content |-> clip.content]

\* the loop over questionFiles: the items read so far, or the first error
RECURSIVE questionFileItems(_, _, _)
questionFileItems(paths, order, items) ==
    IF paths = <<>> THEN [err |-> NoErr, items |-> items]
    ELSE LET r == readQuestionFile(Head(paths)) IN
         IF r.err # NoErr THEN [err |-> r.err, items |-> <<>>]
         ELSE questionFileItems(Tail(paths), order + 1,
                                Append(items, QuestionItem(r.content, order)))

\* the questions of -q, then the contents of the -qf files, then the clipboard
\* of -c, numbered from first
collectQuestions(st, clip, first) ==
    LET qs  == [k \in 1..Len(st.questions) |-> QuestionItem(st.questions[k], first + k - 1)]
        qfs == questionFileItems(st.questionFiles, first + Len(qs), <<>>)
        c   == readClipboard(clip)
    IN IF qfs.err # NoErr THEN [err |-> qfs.err, items |-> <<>>]
       ELSE IF ~st.useClipboard THEN [err |-> NoErr, items |-> qs \o qfs.items]
       ELSE IF c.err # NoErr THEN [err |-> c.err, items |-> <<>>]
       ELSE [err |-> NoErr,
             items |-> qs \o qfs.items
                       \o <<QuestionItem(c.content, first + Len(qs) + Len(qfs.items))>>]

\* raw mode: the files.Config of one -i or -f entry of argOrder
fileConfigOfItem(item, st) ==
    IF item.Type = "force_include"
    THEN [IncludePatterns |-> <<>>, ExcludePatterns |-> st.excludePatterns,
          ForceIncludePatterns |-> <<item.Content>>]
    ELSE [IncludePatterns |-> <<item.Content>>, ExcludePatterns |-> st.excludePatterns,
          ForceIncludePatterns |-> <<>>]

\* raw mode: the files of one entry are added to allFileInfos and become a file_group item
fileGroupOncePerPath(item, acc, fileInfos) ==
    [acc EXCEPT !.allFileInfos =
                   @ \o SelectSeq(fileInfos,
                                  LAMBDA info : \A k \in 1..Len(acc.allFileInfos) :
                                                  acc.allFileInfos[k].Path # info.Path),
                !.contentItems = Append(@, FileGroupItem(item.Content, fileInfos, item.Order))]
fileGroup(item, acc, fileInfos) ==
    [acc EXCEPT !.allFileInfos = @ \o fileInfos,
                !.contentItems = Append(@, FileGroupItem(item.Content, fileInfos, item.Order))]

\* raw mode: the content item of one entry of argOrder
rawItem(item, st, clip, acc) ==
    IF item.Type = "question"
    THEN [acc EXCEPT !.contentItems = Append(@, QuestionItem(item.Content, item.Order))]
    ELSE IF item.Type = "question_file"
    THEN LET r == readQuestionFile(item.Content) IN
         IF r.err # NoErr THEN [acc EXCEPT !.err = r.err]
         ELSE [acc EXCEPT !.contentItems = Append(@, QuestionItem(r.content, item.Order))]
    ELSE IF item.Type = "clipboard"
    THEN LET c == readClipboard(clip) IN
         IF c.err # NoErr THEN [acc EXCEPT !.err = c.err]
         ELSE [acc EXCEPT !.contentItems = Append(@, QuestionItem(c.content, item.Order))]
    ELSE fileGroup(item, acc, ListGitFiles(fileConfigOfItem(item, st)))

\* raw mode: the loop over argOrder, which stops at the first error
RECURSIVE rawItems(_, _, _, _)
rawItems(order, st, clip, acc) ==
    IF order = <<>> \/ acc.err # NoErr THEN acc
    ELSE rawItems(Tail(order), st, clip, rawItem(Head(order), st, clip, acc))

\* the files.Config of the single listing (default mode, dry run)
fileConfigOf(st) ==
    [IncludePatterns |-> st.includePatterns, ExcludePatterns |-> st.excludePatterns,
     ForceIncludePatterns |-> st.forceIncludePatterns]

\* return "", 0, err
failed(e) ==
    [err |-> e, promptText |-> <<>>, fileCount |-> 0, contentItems |-> <<>>,
     allFileInfos |-> <<>>]

\* raw mode without an order log: one file group, then the questions
rawContentUnordered(fileInfos, q) ==
    [err |-> q.err,
     contentItems |-> (IF Len(fileInfos) > 0
                         THEN <<FileGroupItem(<<"*">>, fileInfos, 0)>> ELSE <<>>)
                      \o q.items,
     allFileInfos |-> fileInfos]

\* the single listing of the files
singleListing(st, clip, fileInfos) ==
    IF st.rawMode
    THEN rawContentUnordered(fileInfos, collectQuestions(st, clip, 1))
    ELSE [err |-> NoErr, contentItems |-> <<>>, allFileInfos |-> fileInfos]

\* the listing part: contentItems and allFileInfos, or the first error
listContent(st, clip) ==
    IF st.rawMode /\ Len(st.argOrder) > 0
    THEN rawItems(st.argOrder, st, clip,
                  [err |-> NoErr, contentItems |-> <<>>, allFileInfos |-> <<>>])
    ELSE singleListing(st, clip, ListGitFiles(fileConfigOf(st)))

\* generator.Questions: "Add default question if no questions provided (non-raw mode only)"
questionsOrNone(rawMode, allQuestions) == allQuestions
questionsOrDefault(rawMode, allQuestions) ==
    IF ~rawMode /\ Len(allQuestions) = 0
    THEN <<QuestionItem(Placeholder, 0)>>
    ELSE allQuestions

\* the generator of the run
generatorOf(st, listed, questionItems) ==
    [NewGenerator(listed.allFileInfos, <<>>, st.quietMode)
       EXCEPT !.RawMode = st.rawMode,
              !.Questions = questionsOrDefault(st.rawMode, questionItems),
              !.ContentItems = listed.contentItems]

\* promptText, fileCount, err := generator.Generate(), and the test fileCount == 0
generatedWithoutFiles(listed, out) ==
    [err |-> NoErr, promptText |-> out.promptText, fileCount |-> out.fileCount,
     contentItems |-> listed.contentItems, allFileInfos |-> listed.allFileInfos]
generated(listed, out) ==
    IF out.fileCount = 0
    THEN failed(Errorf("no files were included in the prompt", <<>>))
    ELSE [err |-> NoErr, promptText |-> out.promptText, fileCount |-> out.fileCount,
          contentItems |-> listed.contentItems, allFileInfos |-> listed.allFileInfos]

\* the questions are collected (default mode), the generator is built and run
generate(st, listed, q) ==
    IF q.err # NoErr THEN failed(q.err)
    ELSE generated(listed, Generate(generatorOf(st, listed, q.items)))

\* len(includePatterns) > 0 || len(forceIncludePatterns) > 0
patternsGivenIncludeOnly(st) == Len(st.includePatterns) > 0
patternsGiven(st) == Len(st.includePatterns) > 0 \/ Len(st.forceIncludePatterns) > 0

\* the part of processFilesAndGeneratePrompt after the listing
processListed(st, clip, listed) ==
    IF listed.err # NoErr THEN failed(listed.err)
    ELSE IF Len(listed.allFileInfos) = 0 /\ patternsGiven(st)
    THEN failed(Errorf("no files matched the specified patterns",
                       st.includePatterns \o st.forceIncludePatterns))
    ELSE IF Len(listed.allFileInfos) = 0 /\ ~(st.rawMode /\ Len(st.argOrder) > 0)
    THEN failed(Errorf("no files found in the Git repository", <<>>))
    ELSE generate(st, listed,
                  IF ~st.rawMode THEN collectQuestions(st, clip, 0)
                  ELSE [err |-> NoErr, items |-> <<>>])

processFilesAndGeneratePrompt(st, clip) == processListed(st, clip, listContent(st, clip))

-----------------------------------------------------------------------------
(* The values the variables of a run hold when a specification does not    *)
(* use them.                                                               *)

\* stdout, file and clipboard hold the prompts written to the sink; console holds the
\* listings fmt.Println writes to the terminal (os.Stdout as well)
NoSinks == [stdout |-> <<>>, file |-> <<>>, clipboard |-> <<>>, console |-> <<>>]

\* the system clipboard: whether the clipboard utilities answer, and its content
NoClipboard == [ok |-> FALSE, content |-> <<>>]

\* no configuration file is looked at, no loop is in progress, nothing is on os.Stderr
NoCfg == configFiles = <<>> /\ locals = <<>> /\ diag = <<>> /\ generator = <<>>

NoRun ==
    /\ contentItems = <<>> /\ err = NoErr /\ sinks = NoSinks /\ clipboard = NoClipboard

NoCli ==
    /\ osArgs = <<>> /\ args = <<>> /\ aliases = <<>> /\ cli = ZeroOptions
    /\ NoRun

-----------------------------------------------------------------------------
(* SpecMatch: matchesPattern applied to one path and one pattern.          *)

MatchPaths ==
    { p_a_go, p_b_bin, p_docs_r_md, p_src_a_go, p_src_x_a_go, p_src_xy_a_go,
      p_src_a_md, p_srcs_b_go }

MatchPatterns ==
    { g_src, g_src_slash, g_star_go, g_src_star_go, g_src_ss_go, g_src_ss_a_go,
      g_src_ss_ss_a_go, g_src_ss_y_go, g_src_ss_x_ss_go, g_ss_go, g_src_ss_q_go,
      g_docs_md, g_docs_ss_md, g_a_go }

InitMatch ==
    /\ pc = "match"
    /\ file \in MatchPaths
    /\ pattern \in MatchPatterns
    /\ matched = FALSE
    /\ files = <<>> /\ config = NoConfig /\ fs = NoFs /\ result = <<>>
    /\ doc = <<>> /\ fileCount = 0
    /\ NoCli /\ NoCfg

CallMatchesPattern ==
    /\ pc = "match"
    /\ matched' = matchesPattern(file, pattern)
    /\ pc' = "matched"
    /\ UNCHANGED <<file, pattern, files, config, fs, result, doc, fileCount>>
    /\ UNCHANGED <<cliVars, cfgVars>>

NextMatch == CallMatchesPattern

SpecMatch == InitMatch /\ [][NextMatch]_vars

-----------------------------------------------------------------------------
(* SpecSelect: filterAndEnrichFiles applied to a candidate list and a      *)
(* pattern set, then writeFiles applied to the selection.                  *)

\* the candidate paths, in the sorted order git ls-files prints them
SelPaths == <<p_a_go, p_b_bin, p_src_xy_a_go>>

SelPatterns == { g_src_slash, g_star_go, g_src_ss_go, g_b_bin }

\* what the file system answers for a candidate
KindOk         == [stat |-> TRUE,  size |-> 1, text |-> TRUE,  regular |-> TRUE,  readable |-> TRUE]
KindGone       == [stat |-> FALSE, size |-> 0, text |-> FALSE, regular |-> FALSE, readable |-> FALSE]
KindBig        == [stat |-> TRUE,  size |-> MaxFileSize + 1, text |-> TRUE, regular |-> TRUE, readable |-> TRUE]
KindBinary     == [stat |-> TRUE,  size |-> 1, text |-> FALSE, regular |-> TRUE,  readable |-> TRUE]
KindBigBinary  == [stat |-> TRUE,  size |-> MaxFileSize + 1, text |-> FALSE, regular |-> TRUE, readable |-> TRUE]
KindIrregular  == [stat |-> TRUE,  size |-> 1, text |-> TRUE,  regular |-> FALSE, readable |-> TRUE]
KindUnreadable == [stat |-> TRUE,  size |-> 1, text |-> TRUE,  regular |-> TRUE,  readable |-> FALSE]

FileKinds == { KindOk, KindGone, KindBig, KindBigBinary, KindIrregular, KindUnreadable }

\* the sequences over S of length at most n
SeqsUpTo(S, n) == UNION { [1..k -> S] : k \in 0..n }

\* the sub-lists of SelPaths (in order, without repeats) of at most MaxFiles paths
CandidateLists ==
    { l \in SeqsUpTo(Range(SelPaths), MaxFiles) :
        \A i, j \in 1..Len(l) : i < j =>
            \E a, b \in 1..Len(SelPaths) : a < b /\ SelPaths[a] = l[i] /\ SelPaths[b] = l[j] }

\* the pattern sets of at most MaxPats patterns over the three lists
Configs ==
    UNION { [ IncludePatterns      : [1..a -> SelPatterns],
              ExcludePatterns      : [1..b -> SelPatterns],
              ForceIncludePatterns : [1..(n - a - b) -> SelPatterns] ] :
            <<n, a, b>> \in { t \in (0..MaxPats) \X (0..MaxPats) \X (0..MaxPats) :
                                t[2] + t[3] <= t[1] } }

InitSelect ==
    /\ pc = "select"
    /\ files \in CandidateLists
    /\ config \in Configs
    /\ fs \in [Range(files) -> FileKinds]
    /\ result = <<>>
    /\ doc = <<>> /\ fileCount = 0
    /\ file = <<>> /\ pattern = <<>> /\ matched = FALSE
    /\ osArgs = <<>> /\ args = <<>> /\ aliases = <<>> /\ NoRun
    /\ \E quietMode \in BOOLEAN : cli = [ZeroOptions EXCEPT !.quietMode = quietMode]
    /\ NoCfg

\* ListGitFiles hands the candidate list to filterAndEnrichFiles
Select ==
    /\ pc = "select"
    /\ result' = filterAndEnrichFiles(files, config)
    /\ diag' = diag \o statWarnings(files, config)
    /\ pc' = "selected"
    /\ UNCHANGED <<file, pattern, matched, files, config, fs, doc, fileCount>>
    /\ UNCHANGED <<cliVars, configFiles, locals, generator>>

\* Generate: writeFiles over the selection
Render ==
    /\ pc = "selected"
    /\ doc' = writeFiles(result, MaxFileSize)
    /\ fileCount' = Len(doc')
    /\ diag' = diag \o skipLines(result, MaxFileSize, cli.quietMode)
    /\ pc' = "rendered"
    /\ UNCHANGED <<file, pattern, matched, files, config, fs, result>>
    /\ UNCHANGED <<cliVars, configFiles, locals, generator>>

NextSelect == Select \/ Render

SpecSelect == InitSelect /\ [][NextSelect]_vars

-----------------------------------------------------------------------------
(* SpecParse: customParseArgs, one loop iteration at a time, over every    *)
(* token stream of at most MaxTokens tokens.                               *)

t_A == <<"A">>

t_B == <<"B">>

ParseTokens ==
    { Dash(n_i), Dash(n_e), Dash(n_f), Dash(n_q), Dash(n_qf), Dash(n_c),
      DashDash(n_raw), DashDash(n_output), t_A, t_B }

InitParse ==
    /\ pc = "parse"
    /\ args \in SeqsUpTo(ParseTokens, MaxTokens)
    /\ cli = ZeroOptions
    /\ osArgs = <<>> /\ aliases = <<>>
    /\ NoRun /\ NoCfg
    /\ file = <<>> /\ pattern = <<>> /\ matched = FALSE
    /\ files = <<>> /\ config = NoConfig /\ fs = NoFs /\ result = <<>>
    /\ doc = <<>> /\ fileCount = 0

\* one iteration of the loop: for i := 0; i < len(args); i++
ParseToken ==
    /\ pc = "parse"
    /\ cli.i <= Len(args)
    /\ cli' = parseIteration(cli, args)
    /\ UNCHANGED <<pc, selVars, cfgVars, osArgs, args, aliases, contentItems, err, sinks, clipboard>>

\* the loop ends and customParseArgs returns
ParseReturn ==
    /\ pc = "parse"
    /\ cli.i > Len(args)
    /\ pc' = "parsed"
    /\ UNCHANGED <<selVars, cliVars, cfgVars>>

NextParse == ParseToken \/ ParseReturn

SpecParse == InitParse /\ [][NextParse]_vars

-----------------------------------------------------------------------------
(* Spec: a run of main, from the arguments to the sink, over the           *)
(* repository RepoListed / RepoIgnored.                                    *)

a_go_files == <<"g", "o", "_", "f", "i", "l", "e", "s">>

a_nope == <<"n", "o", "p", "e">>

\* .mpp.txt:  go_files: -i src/**/*.go
LoadedAliases == a_go_files :> (Dash(n_i) \o <<" ">> \o g_src_ss_go)

RepoFs ==
    (p_a_go :> KindOk) @@ (p_docs_r_md :> KindOk) @@ (p_src_xy_a_go :> KindOk)
    @@ (p_b_bin :> KindBinary) @@ (p_question_file :> KindOk)

ClipboardStates == { [ok |-> TRUE, content |-> <<"K">>], NoClipboard }

\* the argument groups a command line is made of
ArgItems ==
    { <<Dash(n_q), t_A>>, <<Dash(n_q), t_B>>, <<Dash(n_qf), p_question_file>>,
      <<Dash(n_c)>>, <<Dash(n_i), p_a_go>>, <<Dash(n_i), g_docs_md>>,
      <<Dash(n_f), p_b_bin>>, <<Dash(n_e), g_src_slash>>,
      <<Dash(n_a), a_go_files>>, <<Dash(n_a), a_nope>>, <<DashDash(n_stdout)>> }

RECURSIVE Flatten(_)
Flatten(groups) == IF groups = <<>> THEN <<>> ELSE Head(groups) \o Flatten(Tail(groups))

\* a command line: --raw or not, then at most MaxArgs argument groups
ArgLists ==
    { prefix \o Flatten(groups) :
        prefix \in { <<>>, <<DashDash(n_raw)>> }, groups \in SeqsUpTo(ArgItems, MaxArgs) }

Init ==
    /\ pc = "start"
    /\ osArgs \in ArgLists
    /\ args = <<>>
    /\ aliases = LoadedAliases
    /\ cli = ZeroOptions
    /\ clipboard \in ClipboardStates
    /\ contentItems = <<>> /\ err = NoErr /\ sinks = NoSinks
    /\ NoCfg
    /\ fs = RepoFs
    /\ files = RepoListed
    /\ config = NoConfig /\ result = <<>> /\ doc = <<>> /\ fileCount = 0
    /\ file = <<>> /\ pattern = <<>> /\ matched = FALSE

\* main: --list-aliases is looked for before the aliases are expanded
listAliasesRequested == \E k \in 1..Len(osArgs) : IsFlagNamed(osArgs[k], n_list_aliases)

\* main: expandAliasesInArgs(os.Args[1:]), log.Fatalf on error, os.Args replaced
ExpandAliases ==
    /\ pc = "start"
    /\ ~listAliasesRequested
    /\ LET r == expandAliasesInArgs(osArgs, aliases) IN
         /\ args' = r.expanded
         /\ err' = r.err
         /\ pc' = IF r.err # NoErr THEN "fatal" ELSE "expanded"
    /\ UNCHANGED <<selVars, cfgVars, osArgs, aliases, cli, contentItems, sinks, clipboard>>

\* main: customParseArgs()
ParseArgs ==
    /\ pc = "expanded"
    /\ cli' = customParseArgs(cli, args)
    /\ pc' = "parsed"
    /\ UNCHANGED <<selVars, cfgVars, osArgs, args, aliases, contentItems, err, sinks, clipboard>>

\* if useStdout && outputFile != ""
bothSinksNever(st) == FALSE
bothSinks(st) == st.useStdout /\ st.outputFile # <<>>

\* main: the help exit, then the validation of the output options
ValidateOutput ==
    /\ pc = "parsed"
    /\ IF cli.showHelp
       THEN pc' = "exit0" /\ err' = err
       ELSE IF bothSinks(cli)
            THEN /\ pc' = "fatal"
                 /\ err' = Errorf("Cannot use both --stdout and --output options at the same time.", <<>>)
            ELSE pc' = "validated" /\ err' = err
    /\ UNCHANGED <<selVars, cfgVars, osArgs, args, aliases, cli, contentItems, sinks, clipboard>>

\* main: checkDependencies(); the working directory is inside a work tree or not
CheckDependencies ==
    /\ pc = "validated"
    /\ \E insideWorkTree \in BOOLEAN :
         IF insideWorkTree
         THEN pc' = "checked" /\ err' = err
         ELSE /\ pc' = "fatal"
              /\ err' = Errorf("you are not inside a Git repository or git is not installed.", <<>>)
    /\ UNCHANGED <<selVars, cfgVars, osArgs, args, aliases, cli, contentItems, sinks, clipboard>>

\* prompt, fileCount, err := processFilesAndGeneratePrompt(); log.Fatalf on error
Returned(out) ==
    /\ err' = out.err
    /\ doc' = out.promptText
    /\ fileCount' = out.fileCount
    /\ contentItems' = out.contentItems
    /\ result' = out.allFileInfos
    /\ pc' = IF out.err # NoErr THEN "fatal" ELSE "generated"

\* main: processFilesAndGeneratePrompt(), log.Fatalf on error
ProcessFiles ==
    /\ pc = "checked"
    /\ ~cli.dryRun
    /\ Returned(processFilesAndGeneratePrompt(cli, clipboard))
    /\ UNCHANGED <<file, pattern, matched, files, config, fs>>
    /\ UNCHANGED <<osArgs, args, aliases, cli, sinks, clipboard, cfgVars>>

\* os.WriteFile opens the file with O_CREATE|O_TRUNC and then writes: it succeeds, or the
\* open fails and the file is untouched, or the write fails and leaves the file truncated
\* and partially written
WriteFileOutcomes == { "written", "open fails", "write fails" }

\* main: the prompt goes to stdout, to the output file or to the clipboard
WriteOutput ==
    /\ pc = "generated"
    /\ IF cli.useStdout
       THEN /\ sinks' = [sinks EXCEPT !.stdout = Append(@, doc)]
            /\ pc' = "exit0"
            /\ UNCHANGED <<err, clipboard>>
       ELSE IF cli.outputFile # <<>>
            THEN \E outcome \in WriteFileOutcomes :
                   IF outcome = "written"
                   THEN /\ sinks' = [sinks EXCEPT !.file = Append(@, doc)]
                        /\ pc' = "done"
                        /\ UNCHANGED <<err, clipboard>>
                   ELSE /\ err' = Errorf("Error writing to output file", cli.outputFile)
                        /\ pc' = "fatal"
                        /\ sinks' = IF outcome = "write fails"
                                     THEN [sinks EXCEPT !.file = Append(@, SubSeq(doc, 1, Len(doc) - 1))]
                                     ELSE sinks
                        /\ UNCHANGED clipboard
            ELSE IF clipboard.ok
                 THEN /\ clipboard' = [clipboard EXCEPT !.content = doc]
                      /\ sinks' = [sinks EXCEPT !.clipboard = Append(@, doc)]
                      /\ pc' = "done"
                      /\ UNCHANGED err
                 ELSE /\ err' = Errorf("Error copying to clipboard", <<>>)
                      /\ pc' = "fatal"
                      /\ UNCHANGED <<sinks, clipboard>>
    /\ UNCHANGED <<selVars, cfgVars, osArgs, args, aliases, cli, contentItems>>

Next ==
    \/ ExpandAliases
    \/ ParseArgs
    \/ ValidateOutput
    \/ CheckDependencies
    \/ ProcessFiles
    \/ WriteOutput

Spec == Init /\ [][Next]_vars

-----------------------------------------------------------------------------
(* SpecRun: the runs of main over the command lines that ask for the       *)
(* informational actions, the sinks and aliases, on a repository whose     *)
(* files are text, binary or oversized.                                    *)

p_out == <<"o", "u", "t", ".", "t", "x", "t">>

\* every listed file is binary / is larger than MaxFileSize
RepoFsBinary ==
    (p_a_go :> KindBinary) @@ (p_docs_r_md :> KindBinary) @@ (p_src_xy_a_go :> KindBinary)
    @@ (p_b_bin :> KindBinary) @@ (p_question_file :> KindOk)

RepoFsBig ==
    (p_a_go :> KindBig) @@ (p_docs_r_md :> KindBig) @@ (p_src_xy_a_go :> KindBig)
    @@ (p_b_bin :> KindBinary) @@ (p_question_file :> KindOk)

RunFileSystems == { RepoFs, RepoFsBinary, RepoFsBig }

RunItems ==
    { <<Dash(n_a), a_nope>>, <<Dash(n_a), a_go_files>>, <<DashDash(n_list_aliases)>>,
      <<Dash(n_h)>>, <<DashDash(n_dry_run)>>, <<DashDash(n_stdout)>>,
      <<DashDash(n_output), p_out>>, <<Dash(n_i), p_a_go>>, <<Dash(n_i), p_b_bin>>,
      <<Dash(n_f), g_docs_md>>, <<Dash(n_f), a_nope>>, <<Dash(n_q), t_A>>,
      <<DashDash(n_stdout), DashDash(n_output), p_out>> }

RunArgLists ==
    { prefix \o Flatten(groups) :
        prefix \in { <<>>, <<DashDash(n_raw)>> }, groups \in SeqsUpTo(RunItems, MaxRunArgs) }

InitRun ==
    /\ pc = "start"
    /\ osArgs \in RunArgLists
    /\ args = <<>>
    /\ aliases = LoadedAliases
    /\ cli = ZeroOptions
    /\ clipboard \in ClipboardStates
    /\ contentItems = <<>> /\ err = NoErr /\ sinks = NoSinks
    /\ NoCfg
    /\ fs \in RunFileSystems
    /\ files = RepoListed
    /\ config = NoConfig /\ result = <<>> /\ doc = <<>> /\ fileCount = 0
    /\ file = <<>> /\ pattern = <<>> /\ matched = FALSE

\* the lines --list-aliases prints
aliasListing(al) ==
    IF DOMAIN al = {} THEN {"No aliases found in .mpp.txt config files."}
    ELSE { [Name |-> n, Options |-> al[n]] : n \in DOMAIN al }

\* main: --list-aliases is handled before the aliases are expanded; os.Exit(0)
ListAliases ==
    /\ pc = "start"
    /\ listAliasesRequested
    /\ cli' = [cli EXCEPT !.listAliases = TRUE]
    /\ sinks' = [sinks EXCEPT !.console = Append(@, aliasListing(aliases))]
    /\ pc' = "exit0"
    /\ UNCHANGED <<selVars, cfgVars, osArgs, args, aliases, contentItems, err, clipboard>>

\* the paths --dry-run prints
pathsOf(fileInfos) == [k \in 1..Len(fileInfos) |-> fileInfos[k].Path]

\* if len(fileInfos) == 0 { log.Fatalf("Dry run: No files would be included ...") }
nothingListedNever(fileInfos) == FALSE
nothingListed(fileInfos) == Len(fileInfos) = 0

\* main: the listing of a dry run is printed, or log.Fatalf when it is empty
Listed(fileInfos) ==
    /\ result' = fileInfos
    /\ IF nothingListed(fileInfos)
       THEN /\ err' = Errorf("Dry run: No files would be included with the current filters.", <<>>)
            /\ pc' = "fatal"
            /\ sinks' = sinks
       ELSE /\ sinks' = [sinks EXCEPT !.console = Append(@, pathsOf(fileInfos))]
            /\ pc' = "exit0"
            /\ err' = err

\* main: --dry-run lists the files and exits
DryRun ==
    /\ pc = "checked"
    /\ cli.dryRun
    /\ Listed(ListGitFiles(fileConfigOf(cli)))
    /\ UNCHANGED <<file, pattern, matched, files, config, fs, doc, fileCount>>
    /\ UNCHANGED <<osArgs, args, aliases, cli, contentItems, clipboard, cfgVars>>

NextRun ==
    \/ ListAliases
    \/ ExpandAliases
    \/ ParseArgs
    \/ ValidateOutput
    \/ CheckDependencies
    \/ DryRun
    \/ ProcessFiles
    \/ WriteOutput

SpecRun == InitRun /\ [][NextRun]_vars

-----------------------------------------------------------------------------
(* Package config: LoadAliases and parseConfigFile.  Directories are the   *)
(* levels 1..MaxDirs of one path of the tree; MaxDirs is the root.         *)

\* directories between the deepest working directory and the root, both included
MaxDirs == 3

Max(S) == CHOOSE x \in S : \A y \in S : y <= x

\* strings.TrimSpace
isSpace(c) == c \in {" ", "\t"}
TrimSpace(s) ==
    LET kept == { k \in 1..Len(s) : ~isSpace(s[k]) }
    IN  IF kept = {} THEN <<>> ELSE SubSeq(s, Min(kept), Max(kept))

\* strings.SplitN with a non-empty separator and n > 0
RECURSIVE SplitN(_, _, _)
SplitN(s, sep, n) ==
    IF n = 1 \/ Index(s, sep) = 0 THEN <<s>>
    ELSE <<SubSeq(s, 1, Index(s, sep) - 1)>> \o SplitN(From(s, Index(s, sep) + Len(sep)), sep, n - 1)

\* filepath.Dir of a directory: the root is its own parent
Dir(currentDir) == IF currentDir = MaxDirs THEN currentDir ELSE currentDir + 1

\* filepath.Join(currentDir, ".mpp.txt")
ConfigPath(currentDir) == <<currentDir, ".mpp.txt">>

Warning(kind, name, first, also) == [kind |-> kind, name |-> name, first |-> first, also |-> also]

\* one line of a configuration file: parsed is [aliases, warnings]
parseLine(parsed, path, line, lineNum) ==
    IF line = <<>> \/ HasPrefix(line, <<"#">>) THEN parsed
    ELSE IF Len(SplitN(line, <<":">>, 2)) # 2
         THEN [parsed EXCEPT !.warnings =
                 Append(@, Warning("Invalid alias definition", <<>>, path, lineNum))]
    ELSE IF TrimSpace(SplitN(line, <<":">>, 2)[1]) = <<>>
         THEN [parsed EXCEPT !.warnings =
                 Append(@, Warning("Empty alias name", <<>>, path, lineNum))]
    ELSE [parsed EXCEPT !.aliases =
            Append(@, [Name    |-> TrimSpace(SplitN(line, <<":">>, 2)[1]),
                       Options |-> TrimSpace(SplitN(line, <<":">>, 2)[2]),
                       Source  |-> path])]

\* the scanner loop of parseConfigFile from line lineNum
RECURSIVE parseLines(_, _, _, _)
parseLines(parsed, path, lines, lineNum) ==
    IF lineNum > Len(lines) THEN parsed
    ELSE parseLines(parseLine(parsed, path, TrimSpace(lines[lineNum]), lineNum),
                    path, lines, lineNum + 1)

\* parseConfigFile: f.fails is "open" when os.Open fails and "scan" when the scanner stops
\* with an error after f.lines; the warnings of the lines read are printed all the same
parseConfigFile(path, f) ==
    IF f.fails = "open" THEN [aliases |-> <<>>, warnings |-> <<>>, err |-> TRUE]
    ELSE IF f.fails = "scan"
         THEN [aliases  |-> <<>>,
               warnings |-> parseLines([aliases |-> <<>>, warnings |-> <<>>], path, f.lines, 1).warnings,
               err      |-> TRUE]
    ELSE [aliases  |-> parseLines([aliases |-> <<>>, warnings |-> <<>>], path, f.lines, 1).aliases,
          warnings |-> parseLines([aliases |-> <<>>, warnings |-> <<>>], path, f.lines, 1).warnings,
          err      |-> FALSE]

\* LoadAliases: one alias of a parsed file; st is [Aliases, seenAliases, warnings]
addAliasLastWins(st, alias, configPath) ==
    [st EXCEPT !.Aliases = (alias.Name :> alias) @@ @,
               !.seenAliases = (alias.Name :> configPath) @@ @]
addAlias(st, alias, configPath) ==
    IF alias.Name \in DOMAIN st.seenAliases
    THEN [st EXCEPT !.warnings =
            Append(@, Warning("duplicated", alias.Name, st.seenAliases[alias.Name], configPath))]
    ELSE [st EXCEPT !.Aliases = (alias.Name :> alias) @@ @,
                    !.seenAliases = (alias.Name :> configPath) @@ @]

RECURSIVE addAliases(_, _, _, _)
addAliases(st, found, k, configPath) ==
    IF k > Len(found) THEN st
    ELSE addAliases(addAlias(st, found[k], configPath), found, k + 1, configPath)

\* LoadAliases: the outcome of parseConfigFile for one directory
loadParsed(st, parsed, configPath) ==
    IF parsed.err
    THEN [st EXCEPT !.warnings =
            (@ \o parsed.warnings) \o <<Warning("Failed to parse config file", <<>>, configPath, 0)>>]
    ELSE addAliases([st EXCEPT !.warnings = @ \o parsed.warnings], parsed.aliases, 1, configPath)

\* LoadAliases: the body of the loop for one directory
loadDirectory(st, currentDir, f) ==
    IF f.stat THEN loadParsed(st, parseConfigFile(ConfigPath(currentDir), f), ConfigPath(currentDir))
    ELSE st

-----------------------------------------------------------------------------
(* SpecLoad: LoadAliases, one directory of the upward walk per step        *)

l_x_qA    == <<"x", ":", " ", "-", "q", " ", "A">>
l_x_qB    == <<"x", ":", "-", "q", " ", "B">>
l_y_ia    == <<" ", "y", " ", ":", " ", "-", "i", " ", "a", ".", "g", "o", " ">>
l_comment == <<"#", " ", "x", ":", " ", "-", "q", " ", "C">>
l_blank   == <<" ", " ">>
l_nocolon == <<"x", " ", "-", "q", " ", "A">>
l_noname  == <<" ", ":", " ", "-", "q", " ", "A">>

ConfigTexts ==
    { <<l_x_qA>>, <<l_x_qB>>, <<l_y_ia, l_x_qB>>,
      <<l_comment, l_blank, l_nocolon, l_noname, l_x_qA, l_x_qB>> }

NoConfigFile == [stat |-> FALSE, fails |-> "", lines |-> <<>>]

ConfigFileStates ==
    { NoConfigFile,
      [stat |-> TRUE, fails |-> "open", lines |-> <<l_x_qA>>],
      [stat |-> TRUE, fails |-> "scan", lines |-> <<l_nocolon, l_x_qA>>] }
    \cup { [stat |-> TRUE, fails |-> "", lines |-> t] : t \in ConfigTexts }

InitLoad ==
    /\ pc = "walk"
    /\ configFiles \in [1..MaxDirs -> ConfigFileStates]
    /\ \E cwd \in 1..MaxDirs : locals = [cwd |-> cwd, currentDir |-> cwd, seenAliases |-> <<>>]
    /\ aliases = <<>>
    /\ diag = <<>>
    /\ generator = <<>>
    /\ osArgs = <<>> /\ args = <<>> /\ cli = ZeroOptions
    /\ NoRun
    /\ file = <<>> /\ pattern = <<>> /\ matched = FALSE
    /\ files = <<>> /\ config = NoConfig /\ fs = NoFs /\ result = <<>>
    /\ doc = <<>> /\ fileCount = 0

\* the state after one iteration of the loop of LoadAliases
Walked(st) ==
    /\ aliases' = st.Aliases
    /\ diag' = st.warnings
    /\ locals' = [locals EXCEPT !.seenAliases = st.seenAliases, !.currentDir = Dir(@)]
    /\ pc' = IF Dir(locals.currentDir) = locals.currentDir THEN "loaded" ELSE "walk"

LoadDirectory ==
    /\ pc = "walk"
    /\ Walked(loadDirectory([Aliases |-> aliases, seenAliases |-> locals.seenAliases, warnings |-> diag],
                            locals.currentDir, configFiles[locals.currentDir]))
    /\ UNCHANGED <<selVars, configFiles, generator>>
    /\ UNCHANGED <<osArgs, args, cli, contentItems, err, sinks, clipboard>>

SpecLoad == InitLoad /\ [][LoadDirectory]_vars

-----------------------------------------------------------------------------
(* SpecExpand: expandAliasesInArgs, one iteration of its loop per step,    *)
(* over alias maps whose option strings invoke aliases themselves.         *)

\* most tokens of a command line of SpecExpand
MaxExpandTokens == 3

\* i++ after the alias name has been read
advancePastFlag(i) == i + 1
advancePastName(i) == i + 2

\* one iteration of the loop of expandAliasesInArgs; st is [i, expanded, err], i 1-based
expandIteration(st, a, al) ==
    IF IsFlagNamed(a[st.i], n_a)
    THEN IF st.i + 1 > Len(a)
         THEN [st EXCEPT !.expanded = <<>>, !.err = Errorf("flag -a requires an argument", <<>>)]
         ELSE IF a[st.i + 1] \notin DOMAIN al
              THEN [st EXCEPT !.expanded = <<>>, !.err = aliasNotFound(a[st.i + 1]).err]
              ELSE [st EXCEPT !.expanded = spliceAlias(@, ExpandAlias(al[a[st.i + 1]])),
                              !.i = advancePastName(@)]
    ELSE [st EXCEPT !.expanded = Append(@, a[st.i]), !.i = @ + 1]

a_loop == <<"l", "o", "o", "p">>
a_ping == <<"p", "i", "n", "g">>
a_pong == <<"p", "o", "n", "g">>

\* loop: -a loop
LoopAliases == a_loop :> (Dash(n_a) \o <<" ">> \o a_loop)

\* ping: -q A -a pong        pong: --a ping
CircularAliases ==
    (a_ping :> (Dash(n_q) \o <<" ">> \o t_A \o <<" ">> \o Dash(n_a) \o <<" ">> \o a_pong))
    @@ (a_pong :> (DashDash(n_a) \o <<" ">> \o a_ping))

ExpandAliasMaps == { <<>>, LoopAliases, CircularAliases, LoopAliases @@ CircularAliases }

ExpandTokens == { Dash(n_a), a_loop, a_ping, a_pong, Dash(n_q), t_A }

InitExpand ==
    /\ pc = "expand"
    /\ osArgs \in SeqsUpTo(ExpandTokens, MaxExpandTokens)
    /\ aliases \in ExpandAliasMaps
    /\ args = <<>>
    /\ locals = [i |-> 1]
    /\ err = NoErr
    /\ cli = ZeroOptions /\ contentItems = <<>> /\ sinks = NoSinks /\ clipboard = NoClipboard
    /\ configFiles = <<>> /\ diag = <<>> /\ generator = <<>>
    /\ file = <<>> /\ pattern = <<>> /\ matched = FALSE
    /\ files = <<>> /\ config = NoConfig /\ fs = NoFs /\ result = <<>>
    /\ doc = <<>> /\ fileCount = 0

\* the state after one iteration: an error returns from the function
Iterated(st) ==
    /\ args' = st.expanded
    /\ locals' = [locals EXCEPT !.i = st.i]
    /\ err' = st.err
    /\ pc' = IF st.err # NoErr THEN "fatal" ELSE "expand"

\* for i := 0; i < len(args); i++ { ... }
ExpandToken ==
    /\ pc = "expand"
    /\ locals.i <= Len(osArgs)
    /\ Iterated(expandIteration([i |-> locals.i, expanded |-> args, err |-> err], osArgs, aliases))
    /\ UNCHANGED <<selVars, configFiles, diag, generator>>
    /\ UNCHANGED <<osArgs, aliases, cli, contentItems, sinks, clipboard>>

\* return expanded, nil
ExpandReturn ==
    /\ pc = "expand"
    /\ locals.i > Len(osArgs)
    /\ pc' = "expanded"
    /\ UNCHANGED <<selVars, cfgVars, cliVars>>

NextExpand ==
    \/ ExpandToken
    \/ ExpandReturn

SpecExpand == InitExpand /\ [][NextExpand]_vars

\* the loop is sequential code: an enabled step is taken
SpecExpandFair == SpecExpand /\ WF_vars(NextExpand)

-----------------------------------------------------------------------------
(* SpecGenerate: a prompt.Generator from NewGenerator to Generate, with    *)
(* the settings its callers and tests make in between.                     *)

\* most files of a generator's file list
MaxGenFiles == 2
\* most calls of AddQuestion
MaxQuestions == 2

t_role  == <<"R">>
t_extra == <<"X">>
t_last  == <<"L">>

\* the path of the k-th file of the list
GenPath(k) == <<"f">> \o [j \in 1..k |-> "0"]

\* files.FileInfo without its path, with the outcome of os.ReadFile
GenAtMax      == [Size |-> MaxFileSize,     IsText |-> TRUE,  IsRegular |-> TRUE,  IsForced |-> FALSE, readable |-> TRUE]
GenOverMax    == [Size |-> MaxFileSize + 1, IsText |-> TRUE,  IsRegular |-> TRUE,  IsForced |-> FALSE, readable |-> TRUE]
GenForced     == [Size |-> MaxFileSize + 2, IsText |-> FALSE, IsRegular |-> TRUE,  IsForced |-> TRUE,  readable |-> TRUE]
GenIrregular  == [Size |-> 1,               IsText |-> TRUE,  IsRegular |-> FALSE, IsForced |-> FALSE, readable |-> TRUE]
GenNonText    == [Size |-> 1,               IsText |-> FALSE, IsRegular |-> TRUE,  IsForced |-> FALSE, readable |-> TRUE]
GenUnreadable == [Size |-> 1,               IsText |-> TRUE,  IsRegular |-> TRUE,  IsForced |-> FALSE, readable |-> FALSE]

GenKinds == { GenAtMax, GenOverMax, GenForced, GenIrregular, GenNonText, GenUnreadable }

fileInfosOf(kinds) ==
    [k \in 1..Len(kinds) |->
        [Path      |-> GenPath(k),
         IsText    |-> kinds[k].IsText,
         IsForced  |-> kinds[k].IsForced,
         Size      |-> kinds[k].Size,
         IsRegular |-> kinds[k].IsRegular]]

fsOf(kinds) ==
    [p \in { GenPath(k) : k \in 1..Len(kinds) } |->
        LET k == CHOOSE j \in 1..Len(kinds) : GenPath(j) = p
        IN  [stat |-> TRUE, size |-> kinds[k].Size, text |-> kinds[k].IsText,
             regular |-> kinds[k].IsRegular, readable |-> kinds[k].readable]]

InitGenerate ==
    /\ pc = "new"
    /\ \E kinds \in SeqsUpTo(GenKinds, MaxGenFiles), question \in {<<>>, Placeholder, t_A} :
         /\ generator = NewGenerator(fileInfosOf(kinds), question, FALSE)
         /\ fs = fsOf(kinds)
    /\ doc = <<>> /\ fileCount = 0
    /\ file = <<>> /\ pattern = <<>> /\ matched = FALSE
    /\ files = <<>> /\ config = NoConfig /\ result = <<>>
    /\ NoCli
    /\ configFiles = <<>> /\ locals = <<>> /\ diag = <<>>

Configured(g) ==
    /\ generator' = g
    /\ UNCHANGED <<pc, selVars, cliVars, configFiles, locals, diag>>

\* generator.RoleMessage = roleMessage
SetRoleMessage ==
    /\ pc = "new" /\ generator.RoleMessage = <<>>
    /\ Configured([generator EXCEPT !.RoleMessage = t_role])

\* generator.ExtraContext = extraContext
SetExtraContext ==
    /\ pc = "new" /\ generator.ExtraContext = <<>>
    /\ Configured([generator EXCEPT !.ExtraContext = t_extra])

\* generator.LastWords = lastWords
SetLastWords ==
    /\ pc = "new" /\ generator.LastWords = <<>>
    /\ Configured([generator EXCEPT !.LastWords = t_last])

\* generator.RawMode = rawMode
SetRawMode ==
    /\ pc = "new" /\ ~generator.RawMode
    /\ Configured([generator EXCEPT !.RawMode = TRUE])

\* Generator.AddQuestion(content, order)
AddQuestion ==
    /\ pc = "new" /\ Len(generator.Questions) < MaxQuestions
    /\ \E content \in {t_A, t_B} :
         Configured([generator EXCEPT !.Questions = Append(@, QuestionItem(content, Len(@)))])

\* Generator.SetMaxFileSize(size)
SetMaxFileSize ==
    /\ pc = "new" /\ generator.MaxFileSize = MaxFileSize
    /\ Configured([generator EXCEPT !.MaxFileSize = MaxFileSize + 1])

\* Generator.Generate()
GenerateDocument ==
    /\ pc = "new"
    /\ doc' = Generate(generator).promptText
    /\ fileCount' = Generate(generator).fileCount
    /\ pc' = "generated"
    /\ UNCHANGED <<file, pattern, matched, files, config, fs, result, cliVars, cfgVars>>

NextGenerate ==
    \/ SetRoleMessage
    \/ SetExtraContext
    \/ SetLastWords
    \/ SetRawMode
    \/ AddQuestion
    \/ SetMaxFileSize
    \/ GenerateDocument

SpecGenerate == InitGenerate /\ [][NextGenerate]_vars

-----------------------------------------------------------------------------
(* SpecTokenize: config.ExpandAlias over every short option string.        *)

\* most characters of an option string
MaxOptionLen == 4

OptionChars == { "a", " ", "\t", "\"", "'" }

InitTokenize ==
    /\ pc = "tokenize"
    /\ \E options \in SeqsUpTo(OptionChars, MaxOptionLen) : locals = [options |-> options]
    /\ args = <<>>
    /\ osArgs = <<>> /\ aliases = <<>> /\ cli = ZeroOptions
    /\ NoRun
    /\ configFiles = <<>> /\ diag = <<>> /\ generator = <<>>
    /\ file = <<>> /\ pattern = <<>> /\ matched = FALSE
    /\ files = <<>> /\ config = NoConfig /\ fs = NoFs /\ result = <<>>
    /\ doc = <<>> /\ fileCount = 0

\* aliasArgs := config.ExpandAlias(alias.Options)
Tokenize ==
    /\ pc = "tokenize"
    /\ args' = ExpandAlias(locals.options)
    /\ pc' = "tokenized"
    /\ UNCHANGED <<selVars, cfgVars, osArgs, aliases, cli, contentItems, err, sinks, clipboard>>

SpecTokenize == InitTokenize /\ [][Tokenize]_vars

-----------------------------------------------------------------------------
(* Properties of the file selector (SpecSelect, SpecMatch).                *)

ResultPaths == [k \in 1..Len(result) |-> result[k].Path]

InResult(f) == \E j \in 1..Len(result) : result[j].Path = f

Selected == pc \in {"selected", "rendered"}

Forced(f) == matchesAny(f, config.ForceIncludePatterns)

\* the sub-list of the candidates that satisfy Keep, in candidate order
Kept(l, Keep(_)) == SelectSeq(l, Keep)

\* a forced candidate is selected as a forced text entry
ForcedSelected(f) ==
    \E j \in 1..Len(result) :
        result[j].Path = f /\ result[j].IsForced /\ result[j].IsText

\* no exclude, size or text filter of the rendering stage drops a forced entry:
\* writeFiles writes it unless it is not a regular file or cannot be read
ForcedRendered(f) ==
    (pc = "rendered" /\ InResult(f) /\ fs[f].regular /\ fs[f].readable)
        => \E b \in 1..Len(doc) : doc[b] = FileBlock(f)

\* C1 as stated: every candidate that matches a forceInclude pattern is in the
\* selection result, forced and text, and no exclude, size or text filter
\* drops it, whatever it matches or weighs.
C1_ForceAlwaysSelected ==
    Selected =>
        \A k \in 1..Len(files) :
            Forced(files[k]) => ForcedSelected(files[k]) /\ ForcedRendered(files[k])

\* C1 amended: every candidate that matches a forceInclude pattern and that
\* os.Stat can stat is in the selection result, forced and text, whether or not
\* it matches an exclude pattern, exceeds the maximum size or is binary, and
\* writeFiles writes it whenever it is a regular, readable file.
C1_ForceSelectedWhenStatable ==
    Selected =>
        \A k \in 1..Len(files) :
            (Forced(files[k]) /\ fs[files[k]].stat)
                => ForcedSelected(files[k]) /\ ForcedRendered(files[k])

C1_Witness ==
    /\ pc = "rendered"
    /\ \E k \in 1..Len(files) :
        /\ Forced(files[k])
        /\ isExcluded(files[k], config.ExcludePatterns)
        /\ fs[files[k]] = KindBigBinary
        /\ ForcedSelected(files[k])
        /\ \E b \in 1..Len(doc) : doc[b] = FileBlock(files[k])

NoIncludeNoForce ==
    config.IncludePatterns = <<>> /\ config.ForceIncludePatterns = <<>>

C4_KeepAsStated(f) ==
    ~isExcluded(f, config.ExcludePatterns) /\ fs[f].text /\ fs[f].size <= MaxFileSize

C4_KeepAmended(f) ==
    ~isExcluded(f, config.ExcludePatterns) /\ fs[f].stat /\ fs[f].text

C5_SelectedMatchInclude ==
    (pc = "selected" /\ config.IncludePatterns # <<>> /\ config.ForceIncludePatterns = <<>>)
        => \A j \in 1..Len(result) :
              \E k \in 1..Len(config.IncludePatterns) :
                  matchesPattern(result[j].Path, config.IncludePatterns[k])

C5_Witness ==
    /\ pc = "selected"
    /\ config.IncludePatterns = <<g_b_bin, g_src_ss_go>>
    /\ config.ForceIncludePatterns = <<>>
    /\ files = <<p_src_xy_a_go>>
    /\ ResultPaths = files

OnlyForce ==
    config.IncludePatterns = <<>> /\ config.ForceIncludePatterns # <<>>

C6_StatableForced(f) == Forced(f) /\ fs[f].stat

\* C6 as stated: with an empty include list and a non-empty forceInclude list
\* the selection result holds exactly the candidates that match a forceInclude
\* pattern.
C6_OnlyForcedExactly ==
    (pc = "selected" /\ OnlyForce) => ResultPaths = Kept(files, Forced)

\* C6 amended: with an empty include list and a non-empty forceInclude list
\* the selection result holds exactly the candidates that match a forceInclude
\* pattern and can be stat'ed, and no non-forced path.
C6_OnlyStatableForced ==
    (pc = "selected" /\ OnlyForce) =>
        /\ ResultPaths = Kept(files, C6_StatableForced)
        /\ \A j \in 1..Len(result) : result[j].IsForced

C6_Witness ==
    /\ pc = "selected"
    /\ OnlyForce
    /\ config.ExcludePatterns = <<>>
    /\ Len(files) = 1
    /\ ~Forced(files[1]) /\ fs[files[1]] = KindOk
    /\ result = <<>>

\* the exclude pattern E without its trailing '/'
C7_N(E) == IF E # <<>> /\ E[Len(E)] = "/" THEN SubSeq(E, 1, Len(E) - 1) ELSE E

C7_Rejects(E, f) ==
    \/ f = C7_N(E)
    \/ Match(C7_N(E), f)
    \/ HasPrefix(f, C7_N(E) \o Slash)

\* every exclude pattern that does not end in '/' given with the '/' appended
C7_WithSlash(c) ==
    [c EXCEPT !.ExcludePatterns =
        [k \in 1..Len(c.ExcludePatterns) |->
            IF c.ExcludePatterns[k] = C7_N(c.ExcludePatterns[k])
              THEN c.ExcludePatterns[k] \o Slash ELSE c.ExcludePatterns[k]]]

\* every exclude pattern given without its trailing '/'
C7_WithoutSlash(c) ==
    [c EXCEPT !.ExcludePatterns =
        [k \in 1..Len(c.ExcludePatterns) |-> C7_N(c.ExcludePatterns[k])]]

\* C7: a non-forced candidate that equals N, glob-matches N or starts with
\* N + "/" (N the exclude pattern without its trailing '/') is rejected, and
\* an exclude pattern selects the same paths with and without the trailing '/'.
C7_ExcludeByNameGlobOrDirectory ==
    pc = "selected" =>
        /\ \A k \in 1..Len(files) : \A e \in 1..Len(config.ExcludePatterns) :
              (~Forced(files[k]) /\ C7_Rejects(config.ExcludePatterns[e], files[k]))
                  => ~InResult(files[k])
        /\ result = filterAndEnrichFiles(files, C7_WithSlash(config))
        /\ result = filterAndEnrichFiles(files, C7_WithoutSlash(config))

C7_Witness ==
    /\ pc = "selected"
    /\ config = [NoConfig EXCEPT !.ExcludePatterns = <<g_src_slash>>]
    /\ files = <<p_src_xy_a_go>>
    /\ fs[p_src_xy_a_go] = KindOk
    /\ result = <<>>

SlashStarStarSlash == <<"/", "*", "*", "/">>

\* the path starts with P/ and its remainder, or a suffix of the remainder
\* taken at a segment boundary, glob-matches S
C8_DeepMatch(P, S, f) ==
    /\ HasPrefix(f, P \o Slash)
    /\ LET R == From(f, Len(P) + 2)
       IN  \/ Match(S, R)
           \/ \E k \in 1..Len(R) : R[k] = "/" /\ Match(S, From(R, k + 1))

\* C8 as stated: for every way of reading the pattern as P/**/S, every path
\* that starts with P/ and whose remainder matches S at some depth is accepted.
C8_DoubleStarAnyDepth ==
    pc = "matched" =>
        \A k \in 1..(Len(pattern) - 3) :
            (SubSeq(pattern, k, k + 3) = SlashStarStarSlash
             /\ C8_DeepMatch(SubSeq(pattern, 1, k - 1), From(pattern, k + 4), file))
                => matched

\* C8 amended: for a pattern P/**/S whose only "**" is the one between P and
\* S, every path that starts with P/ and whose remainder, or a suffix of the
\* remainder taken at a segment boundary, glob-matches S is accepted.
C8_SingleDoubleStarAnyDepth ==
    pc = "matched" =>
        \A k \in 1..(Len(pattern) - 3) :
            (SubSeq(pattern, k, k + 3) = SlashStarStarSlash
             /\ ~Contains(SubSeq(pattern, 1, k - 1), StarStar)
             /\ ~Contains(From(pattern, k + 4), StarStar)
             /\ C8_DeepMatch(SubSeq(pattern, 1, k - 1), From(pattern, k + 4), file))
                => matched

C8_Witness ==
    /\ pc = "matched"
    /\ pattern = g_src_ss_go
    /\ file = p_src_xy_a_go
    /\ C8_DeepMatch(g_src, g_star_go, file)
    /\ ~Match(pattern, file)
    /\ matched

-----------------------------------------------------------------------------
(* Properties of the content assembler (Spec).                             *)

\* the file blocks the selection of one -i pattern renders
C2_FileBlocksOf(p) ==
    writeFiles(ListGitFiles([IncludePatterns |-> <<p>>,
                             ExcludePatterns |-> cli.excludePatterns,
                             ForceIncludePatterns |-> <<>>]),
               MaxFileSize)

\* the document the arguments ask for: each question text and each -i
\* argument's file blocks, in the order of the arguments
RECURSIVE C2_InArgumentOrder(_)
C2_InArgumentOrder(order) ==
    IF order = <<>> THEN <<>>
    ELSE (IF Head(order).Type = "question"
            THEN <<QuestionBlock(Head(order).Content)>>
            ELSE C2_FileBlocksOf(Head(order).Content))
         \o C2_InArgumentOrder(Tail(order))

C2_OnlyQuestionsAndIncludes ==
    \A k \in 1..Len(cli.argOrder) : cli.argOrder[k].Type \in {"question", "include"}

\* C2 (as stated): in raw mode, for every interleaving of -q and -i arguments,
\* the rendered document holds the question texts and the file blocks of each -i
\* argument in exactly the order the arguments were given.
C2_RawDocumentInArgumentOrder ==
    (pc = "generated" /\ cli.rawMode /\ Len(cli.argOrder) > 0
        /\ C2_OnlyQuestionsAndIncludes)
    => doc = C2_InArgumentOrder(cli.argOrder)

\* the text a question source contributes
C3_TextOf(entry) ==
    IF entry.Type = "question" THEN entry.Content
    ELSE IF entry.Type = "question_file" THEN FileText(entry.Content)
    ELSE clipboard.content

\* the question sources of the command line, in the order they were declared
C3_Declared ==
    SelectSeq(cli.argOrder,
              LAMBDA e : e.Type \in {"question", "question_file", "clipboard"})

C3_DeclaredTexts == [k \in 1..Len(C3_Declared) |-> C3_TextOf(C3_Declared[k])]

\* the lines of the final question section of the document
C3_QuestionLines ==
    LET lines == SelectSeq(doc, LAMBDA b : b.kind = "question")
    IN [k \in 1..Len(lines) |-> lines[k].content]

\* C3 (as stated): in default mode every -q, -qf and -c occurrence contributes
\* one question line to the final question section, and the lines are in the
\* order the flags were declared, also when the three kinds are mixed.
C3_QuestionsInDeclarationOrder ==
    (pc = "generated" /\ ~cli.rawMode /\ Len(C3_Declared) > 0)
    => C3_QuestionLines = C3_DeclaredTexts

-----------------------------------------------------------------------------
(* Properties of the argument interpreter (SpecParse).                     *)

\* the contents of the order-log entries of one type, in log order
C9_Logged(type) ==
    LET entries == SelectSeq(cli.argOrder, LAMBDA e : e.Type = type)
    IN [k \in 1..Len(entries) |-> entries[k].Content]

\* the tokens the loop has consumed so far
C9_Consumed == SubSeq(args, 1, cli.i - 1)

\* the number of -c occurrences among the consumed tokens
C9_ClipboardOccurrences ==
    Cardinality({ k \in 1..Len(C9_Consumed) : IsFlagNamed(C9_Consumed[k], n_c) })

\* the token an entry was recorded from
C9_RecordedFrom(entry, token) ==
    IF entry.Type = "clipboard" THEN IsFlagNamed(token, n_c)
    ELSE ~isFlag(token) /\ entry.Content = token

\* the entries can be paired with tokens of increasing position
RECURSIVE C9_InTokenOrder(_, _)
C9_InTokenOrder(entries, tokens) ==
    IF entries = <<>> THEN TRUE
    ELSE IF tokens = <<>> THEN FALSE
    ELSE IF C9_RecordedFrom(Head(entries), Head(tokens))
         THEN C9_InTokenOrder(Tail(entries), Tail(tokens))
         ELSE C9_InTokenOrder(entries, Tail(tokens))

\* C9: whatever tokens customParseArgs has consumed, the order log holds exactly
\* one entry for every recorded include pattern, force-include pattern, literal
\* question, question-file reference and -c occurrence, in the order of the
\* tokens, and the entries are numbered 0, 1, 2, ... without gap or repeat.
C9_OrderLogMatchesRecorded ==
    /\ \A k \in 1..Len(cli.argOrder) : cli.argOrder[k].Order = k - 1
    /\ \A k \in 1..Len(cli.argOrder) :
         cli.argOrder[k].Type \in
            {"include", "force_include", "question", "question_file", "clipboard"}
    /\ C9_Logged("include") = cli.includePatterns
    /\ C9_Logged("force_include") = cli.forceIncludePatterns
    /\ C9_Logged("question") = cli.questions
    /\ C9_Logged("question_file") = cli.questionFiles
    /\ Len(C9_Logged("clipboard")) = C9_ClipboardOccurrences
    /\ C9_InTokenOrder(cli.argOrder, C9_Consumed)

\* customParseArgs has returned from -c -i A B ... : a clipboard entry and two
\* include entries, numbered 0, 1, 2
C9_Witness ==
    /\ pc = "parsed"
    /\ Len(cli.argOrder) = 3
    /\ cli.argOrder[1].Type = "clipboard"
    /\ cli.argOrder[2].Type = "include"
    /\ cli.argOrder[3] = [Type |-> "include", Content |-> t_B, Order |-> 2]
    /\ cli.includePatterns = <<t_A, t_B>>

-----------------------------------------------------------------------------
(* Properties of the alias expansion (Spec).                               *)

\* expandAliasesInArgs has returned without error
C10_Expanded ==
    /\ pc # "start"
    /\ err.msg \notin {"alias not found", "flag -a requires an argument"}

\* the arguments with each -a name pair replaced, where it stands, by the
\* tokens of the alias's option string
RECURSIVE C10_Replaced(_)
C10_Replaced(a) ==
    IF a = <<>> THEN <<>>
    ELSE IF IsFlagNamed(Head(a), n_a) /\ Len(a) >= 2
         THEN ExpandAlias(aliases[a[2]]) \o C10_Replaced(Tail(Tail(a)))
         ELSE <<Head(a)>> \o C10_Replaced(Tail(a))

\* the run of -a go_files -i docs/*.md
C10_AliasWithExplicitInclude ==
    /\ osArgs = <<Dash(n_a), a_go_files, Dash(n_i), g_docs_md>>
    /\ pc = "generated"

\* C10: expandAliasesInArgs replaces each -a name pair in place by the tokens of
\* the alias's option string and leaves every other token as it is and where it
\* is, so that an alias composes with explicit flags: -a go_files -i docs/*.md
\* selects the files of the alias's pattern together with the docs files.
C10_AliasReplacedInPlace ==
    /\ C10_Expanded => args = C10_Replaced(osArgs)
    /\ C10_AliasWithExplicitInclude =>
         /\ cli.includePatterns = <<g_src_ss_go, g_docs_md>>
         /\ \A k \in 1..Len(RepoListed) :
              InResult(RepoListed[k]) <=>
                 (matchesPattern(RepoListed[k], g_src_ss_go)
                    \/ matchesPattern(RepoListed[k], g_docs_md))

\* the run of -i docs/*.md -a go_files -q A has generated its document: the
\* alias is replaced where it stands, between the explicit flags
C10_Witness ==
    /\ pc = "generated"
    /\ osArgs = <<Dash(n_i), g_docs_md, Dash(n_a), a_go_files, Dash(n_q), t_A>>
    /\ args = <<Dash(n_i), g_docs_md, Dash(n_i), g_src_ss_go, Dash(n_q), t_A>>
    /\ InResult(p_docs_r_md)
    /\ InResult(p_src_xy_a_go)


\* the alias names that follow an -a of the command line and are not in the alias map
C11_MissingAliases ==
    { osArgs[k + 1] : k \in { j \in 1..(Len(osArgs) - 1) :
                              IsFlagNamed(osArgs[j], n_a) /\ osArgs[j + 1] \notin DOMAIN aliases } }

\* the run ended in the fatal error that names a missing alias, before any argument was
\* interpreted, any file selected, any document assembled and any sink written
C11_FatalBeforeAnything ==
    /\ pc = "fatal"
    /\ err.msg = "alias not found"
    /\ err.detail \in C11_MissingAliases
    /\ cli = ZeroOptions /\ args = <<>>
    /\ result = <<>> /\ contentItems = <<>> /\ doc = <<>> /\ fileCount = 0
    /\ sinks = NoSinks

\* C11 as stated: whenever some -a of the command line names an alias that is not in the
\* alias map, the run ends in a fatal error naming the alias before anything else happens.
\* Fails: with --list-aliases on the command line the aliases are listed and the run exits
\* with status 0 before the aliases are expanded.
C11_AsStated ==
    (pc # "start" /\ C11_MissingAliases # {}) => C11_FatalBeforeAnything

\* C11 (amended): whenever some -a of the command line names an alias that is not in the
\* alias map and --list-aliases is not on the command line, the first step of the run ends
\* it in a fatal error whose message names the missing alias, with no argument interpreted,
\* no file selected, no document assembled and no sink written.
C11_UnknownAliasIsFatal ==
    (pc # "start" /\ C11_MissingAliases # {} /\ ~listAliasesRequested) => C11_FatalBeforeAnything

\* a run given a known alias and then an unknown one has ended in the fatal error
C11_Witness ==
    /\ C11_FatalBeforeAnything
    /\ \E k \in 1..(Len(osArgs) - 1) : IsFlagNamed(osArgs[k], n_a) /\ osArgs[k + 1] \in DOMAIN aliases

\* the directories of the upward search path
C12_SearchPath == locals.cwd..MaxDirs

\* the position of the first colon of a line that is a definition, 0 for any other line
C12_Colon(line) ==
    IF TrimSpace(line) = <<>> \/ TrimSpace(line)[1] = "#" THEN 0
    ELSE Index(TrimSpace(line), <<":">>)

\* the lines of the configuration file of directory k that define the alias name
C12_DefLines(k, name) ==
    { j \in 1..Len(configFiles[k].lines) :
        /\ C12_Colon(configFiles[k].lines[j]) > 0
        /\ TrimSpace(SubSeq(TrimSpace(configFiles[k].lines[j]), 1,
                            C12_Colon(configFiles[k].lines[j]) - 1)) = name }

\* the options of definition line j of the configuration file of directory k
C12_OptionsAt(k, j) ==
    TrimSpace(From(TrimSpace(configFiles[k].lines[j]), C12_Colon(configFiles[k].lines[j]) + 1))

C12_Names == { <<"x">>, <<"y">> }

\* the directories of the search path whose configuration file defines the name
C12_Defining(name) ==
    { k \in C12_SearchPath : configFiles[k].stat /\ C12_DefLines(k, name) # {} }

\* those of them whose configuration file is opened and scanned without error
C12_Read(name) == { k \in C12_Defining(name) : configFiles[k].fails = "" }

\* the loaded alias is the first definition of the closest directory of K, and every
\* definition of another directory of K has its warning naming both files
C12_ClosestOf(name, K) ==
    /\ name \in DOMAIN aliases
    /\ aliases[name] = [Name    |-> name,
                        Options |-> C12_OptionsAt(Min(K), Min(C12_DefLines(Min(K), name))),
                        Source  |-> ConfigPath(Min(K))]
    /\ \A k \in K \ {Min(K)} :
         Cardinality({ w \in 1..Len(diag) :
                         diag[w] = Warning("duplicated", name, ConfigPath(Min(K)), ConfigPath(k)) })
           = Cardinality(C12_DefLines(k, name))

\* C12 as stated: when LoadAliases has returned, a name defined in several configuration
\* files of the search path is loaded from the closest of them and every other definition
\* has a warning naming both files.  Fails when the closest file cannot be opened or
\* scanned: its definitions are dropped and a farther definition is loaded.
C12_AsStated ==
    pc = "loaded" =>
        \A name \in C12_Names :
            Cardinality(C12_Defining(name)) >= 2 => C12_ClosestOf(name, C12_Defining(name))

\* no step of the walk replaces or removes a loaded alias
C12_NeverReplaced ==
    \A name \in DOMAIN aliases : name \in DOMAIN aliases' /\ aliases'[name] = aliases[name]

\* C12 (amended): when LoadAliases has returned, a name defined in several configuration
\* files of the search path that are opened and scanned without error is loaded from the
\* closest of them, every definition in another of them has a warning naming both files,
\* and no step of the upward walk ever replaces an alias that is already loaded.
C12_ClosestDefinitionWins ==
    /\ [](pc = "loaded" =>
            \A name \in C12_Names :
                Cardinality(C12_Read(name)) >= 2 => C12_ClosestOf(name, C12_Read(name)))
    /\ [][C12_NeverReplaced]_vars

\* LoadAliases has returned x from the working directory, defined with other options in
\* two more directories above it, one of them defining it twice
C12_Witness ==
    /\ pc = "loaded"
    /\ C12_Read(<<"x">>) = 1..MaxDirs
    /\ aliases[<<"x">>].Source = ConfigPath(1)
    /\ \E k \in 2..MaxDirs : C12_OptionsAt(k, Min(C12_DefLines(k, <<"x">>))) # aliases[<<"x">>].Options
    /\ \E k \in 2..MaxDirs : Cardinality(C12_DefLines(k, <<"x">>)) = 2
    /\ Len(diag) >= MaxDirs

\* the input tokens from index k with every -a name pair replaced by the tokens of the
\* alias's option string, and nothing else changed
RECURSIVE C13_OnePass(_)
C13_OnePass(k) ==
    IF k > Len(osArgs) THEN <<>>
    ELSE IF IsFlagNamed(osArgs[k], n_a)
         THEN ExpandAlias(aliases[osArgs[k + 1]]) \o C13_OnePass(k + 2)
         ELSE <<osArgs[k]>> \o C13_OnePass(k + 1)

\* an iteration moves the index forward over the input tokens, which do not change
C13_IndexAdvances ==
    /\ osArgs' = osArgs /\ aliases' = aliases
    /\ (pc' = "expand" => locals'.i > locals.i /\ locals'.i <= Len(osArgs) + 1)

\* C13: expansion is one pass over the input tokens: the tokens an alias produces are
\* appended as they are and never expanded, also when they are -a name (of the alias
\* itself or of another); every iteration moves the index forward over the unchanged
\* input; and for every alias map, circular ones included, the loop ends.
C13_SinglePassTerminates ==
    /\ [](pc = "expanded" => args = C13_OnePass(1) /\ args = expandAliasesInArgs(osArgs, aliases).expanded)
    /\ [][C13_IndexAdvances]_vars
    /\ <>(pc \in {"expanded", "fatal"})

\* expansion has returned tokens that invoke an alias of a circular map, unexpanded
C13_Witness ==
    /\ pc = "expanded"
    /\ aliases = LoopAliases @@ CircularAliases
    /\ \E k \in 1..(Len(args) - 1) : IsFlagNamed(args[k], n_a) /\ args[k + 1] \in {a_loop, a_pong}
    /\ Len(osArgs) = MaxExpandTokens

\* the place of a block of each kind in the default-mode document
C14_Rank(kind) ==
    CASE kind = "role"             -> 1
      [] kind = "introduction"     -> 2
      [] kind = "structure_header" -> 3
      [] kind = "tree"             -> 4
      [] kind = "files_header"     -> 5
      [] kind = "file"             -> 6
      [] kind = "end_of_files"     -> 7
      [] kind = "extra"            -> 8
      [] kind = "question_header"  -> 9
      [] kind = "question"         -> 10
      [] kind = "last_words"       -> 11
      [] OTHER                     -> 0

\* the contents of the blocks of one kind, in document order
C14_ContentsOf(kind) ==
    LET OfKind(b) == b.kind = kind
    IN  [k \in 1..Len(SelectSeq(doc, OfKind)) |-> SelectSeq(doc, OfKind)[k].content]

\* the questions the generator holds: Questions, or else the Question field when it is set
C14_Questions ==
    IF Len(generator.Questions) > 0
    THEN [k \in 1..Len(generator.Questions) |-> generator.Questions[k].Content]
    ELSE IF generator.Question # <<>> /\ generator.Question # Placeholder
         THEN <<generator.Question>> ELSE <<>>

\* paths is a subsequence of the paths of the generator's files, in their order
C14_InFileOrder(paths) ==
    \E at \in [1..Len(paths) -> 1..Len(generator.Files)] :
        /\ \A k \in 1..Len(paths) : generator.Files[at[k]].Path = paths[k]
        /\ \A k \in 1..(Len(paths) - 1) : at[k] < at[k + 1]

\* C14: the document Generate returns in default mode has its sections in one fixed
\* order: role message (exactly when set), introduction, project structure, the file
\* blocks in the order of the generator's files, the end-of-files marker, extra context
\* (exactly when set), the question sentence followed by all questions in their order,
\* closing text (exactly when set); every file block precedes every question.
C14_DefaultSectionsInFixedOrder ==
    (pc = "generated" /\ ~generator.RawMode) =>
        /\ \A i, j \in 1..Len(doc) :
             i < j => /\ C14_Rank(doc[i].kind) > 0
                      /\ C14_Rank(doc[i].kind) <= C14_Rank(doc[j].kind)
                      /\ (C14_Rank(doc[i].kind) = C14_Rank(doc[j].kind)
                             => doc[i].kind \in {"file", "question"})
        /\ C14_ContentsOf("role") = (IF generator.RoleMessage # <<>> THEN <<generator.RoleMessage>> ELSE <<>>)
        /\ \A kind \in {"introduction", "structure_header", "tree", "files_header", "end_of_files"} :
             Len(C14_ContentsOf(kind)) = 1
        /\ C14_InFileOrder(C14_ContentsOf("file"))
        /\ C14_ContentsOf("extra") = (IF generator.ExtraContext # <<>> THEN <<generator.ExtraContext>> ELSE <<>>)
        /\ C14_ContentsOf("question") = C14_Questions
        /\ Len(C14_ContentsOf("question_header")) = (IF C14_Questions = <<>> THEN 0 ELSE 1)
        /\ C14_ContentsOf("last_words") = (IF generator.LastWords # <<>> THEN <<generator.LastWords>> ELSE <<>>)

\* a default-mode document with every optional section, two file blocks and two questions
C14_Witness ==
    /\ pc = "generated" /\ ~generator.RawMode
    /\ generator.RoleMessage # <<>> /\ generator.ExtraContext # <<>> /\ generator.LastWords # <<>>
    /\ Len(C14_ContentsOf("file")) = 2
    /\ C14_ContentsOf("question") = <<t_B, t_A>>

\* C15: the document Generate returns in raw mode consists only of file blocks, written
\* as in default mode, and of the texts of the questions: no role message, introduction,
\* project structure, question sentence, extra context or closing text, also when the
\* role message, the extra context and the closing text are set.
C15_RawHasOnlyFilesAndQuestions ==
    (pc = "generated" /\ generator.RawMode) =>
        /\ \A k \in 1..Len(doc) : doc[k].kind \in {"file", "question"}
        /\ \A k \in 1..Len(doc) : doc[k].kind = "file" => doc[k] = FileBlock(doc[k].content)
        /\ C14_ContentsOf("file") =
             [k \in 1..Len(writeFiles(generator.Files, generator.MaxFileSize)) |->
                 writeFiles(generator.Files, generator.MaxFileSize)[k].content]
        /\ C14_ContentsOf("question") =
             [k \in 1..Len(generator.Questions) |-> generator.Questions[k].Content]

\* a raw-mode document of a generator whose role message, extra context and closing text
\* are set, with a file block and a question
C15_Witness ==
    /\ pc = "generated" /\ generator.RawMode
    /\ generator.RoleMessage # <<>> /\ generator.ExtraContext # <<>> /\ generator.LastWords # <<>>
    /\ Len(C14_ContentsOf("file")) >= 1
    /\ Len(C14_ContentsOf("question")) >= 1

\* no -q, -qf or -c is among the arguments the interpreter was given
C16_NoQuestionFlag ==
    \A k \in 1..Len(args) :
        ~(IsFlagNamed(args[k], n_q) \/ IsFlagNamed(args[k], n_qf) \/ IsFlagNamed(args[k], n_c))

\* C16: a default-mode document rendered for a command line without -q, -qf and -c has
\* the 'answer the following question' sentence, followed by the placeholder question
\* string as its only question.
C16_PlaceholderQuestion ==
    (pc = "generated" /\ ~cli.rawMode /\ C16_NoQuestionFlag) =>
        /\ \E k \in 1..(Len(doc) - 1) :
               doc[k] = Block("question_header") /\ doc[k + 1] = QuestionBlock(Placeholder)
        /\ C14_ContentsOf("question") = <<Placeholder>>

\* a default-mode document was rendered for a command line of MaxArgs flags with a value,
\* none of which asks a question
C16_Witness ==
    /\ pc = "generated" /\ ~cli.rawMode /\ C16_NoQuestionFlag
    /\ Len(args) = 2 * MaxArgs
    /\ fileCount >= 1

\* the k-th file of the generator is skipped by one of the four tests of writeFiles
C17_Skipped(k) ==
    \/ ~generator.Files[k].IsRegular
    \/ ~generator.Files[k].IsForced /\ generator.Files[k].Size > generator.MaxFileSize
    \/ ~generator.Files[k].IsForced /\ ~generator.Files[k].IsText
    \/ ~fs[generator.Files[k].Path].readable

\* the document has a delimited block for the k-th file of the generator
C17_HasBlock(k) == \E b \in 1..Len(doc) : doc[b] = FileBlock(generator.Files[k].Path)

\* C17: in both modes the file count Generate returns is the number of delimited file
\* blocks of the document; a file that is not regular, too large, non-text or unreadable
\* has no block and is not counted, and every other file has its block, also after a
\* skipped one.
C17_CountIsNumberOfBlocks ==
    pc = "generated" =>
        /\ fileCount = Len(C14_ContentsOf("file"))
        /\ fileCount = Cardinality({ k \in 1..Len(generator.Files) : ~C17_Skipped(k) })
        /\ \A k \in 1..Len(generator.Files) : C17_HasBlock(k) <=> ~C17_Skipped(k)

\* a raw-mode document whose first file was skipped and whose last file was rendered
C17_Witness ==
    /\ pc = "generated" /\ generator.RawMode
    /\ Len(generator.Files) = MaxGenFiles
    /\ C17_Skipped(1) /\ ~C17_HasBlock(1)
    /\ C17_HasBlock(MaxGenFiles)
    /\ fileCount = 1

\* C18: a file that is not forced is rendered only if its size does not exceed the
\* generator's maximum: at exactly the maximum a regular, readable text file is
\* rendered, one byte above it is not; a forced file that is regular and readable is
\* rendered whatever its size; Generate returns its document and count all the same.
C18_SizeLimit ==
    pc = "generated" =>
        \A k \in 1..Len(generator.Files) :
            LET info == generator.Files[k]
                usable == info.IsRegular /\ fs[info.Path].readable
            IN  /\ (~info.IsForced /\ C17_HasBlock(k)) => info.Size <= generator.MaxFileSize
                /\ (~info.IsForced /\ usable /\ info.IsText /\ info.Size = generator.MaxFileSize)
                      => C17_HasBlock(k)
                /\ (~info.IsForced /\ info.Size = generator.MaxFileSize + 1) => ~C17_HasBlock(k)
                /\ (info.IsForced /\ usable) => C17_HasBlock(k)

\* with the default maximum, one document has a file of exactly 1048576 bytes rendered
\* and a file of 1048577 bytes dropped
C18_Witness ==
    /\ pc = "generated"
    /\ generator.MaxFileSize = MaxFileSize
    /\ \E k \in 1..Len(generator.Files) :
         ~generator.Files[k].IsForced /\ generator.Files[k].Size = MaxFileSize /\ C17_HasBlock(k)
    /\ \E k \in 1..Len(generator.Files) :
         ~generator.Files[k].IsForced /\ generator.Files[k].Size = MaxFileSize + 1 /\ ~C17_HasBlock(k)

\* the run has come to its file selection: it has not ended in the help or alias listing
\* or in a fatal error of an earlier stage
C19_SelectionRan ==
    \/ pc \in {"generated", "done"}
    \/ pc = "exit0" /\ ~cli.showHelp /\ ~cli.listAliases
    \/ pc = "fatal" /\ err.msg \notin
         { "alias not found", "flag -a requires an argument",
           "Cannot use both --stdout and --output options at the same time.",
           "you are not inside a Git repository or git is not installed." }

\* the file selection of the run yields no file
C19_NoFilesSelected ==
    IF cli.dryRun THEN ListGitFiles(fileConfigOf(cli)) = <<>>
    ELSE /\ listContent(cli, clipboard).err = NoErr
         /\ listContent(cli, clipboard).allFileInfos = <<>>

\* at least one -i or -f pattern was given
C19_PatternGiven == cli.includePatterns # <<>> \/ cli.forceIncludePatterns # <<>>

C19_WitnessRepository ==
    /\ C19_SelectionRan /\ C19_NoFilesSelected
    /\ ~C19_PatternGiven
    /\ err.msg = "no files found in the Git repository"

\* the number of writes to the sinks of the prompt
C20_Writes == Len(sinks.stdout) + Len(sinks.file) + Len(sinks.clipboard)

\* what has been written is the document of a run with an included file, to the sink
\* the options choose
C20_WrittenToChosenSink ==
    /\ fileCount >= 1 /\ doc # <<>> /\ result # <<>>
    /\ Len(sinks.stdout) = 1 => cli.useStdout /\ sinks.stdout = <<doc>>
    /\ Len(sinks.file) = 1 => ~cli.useStdout /\ cli.outputFile # <<>>
    /\ Len(sinks.clipboard) = 1 =>
         ~cli.useStdout /\ cli.outputFile = <<>> /\ sinks.clipboard = <<doc>>

\* C20 as stated: every run writes its sink at most once, only the document of a
\* successful assembly with an included file, and a run that ends in a fatal error has
\* written nothing to any sink.  Fails for the fatal error of the sink itself: a write of
\* the output file that fails can leave the file truncated and partially written.
C20_AsStated ==
    /\ C20_Writes <= 1
    /\ C20_Writes = 1 => C20_WrittenToChosenSink
    /\ pc = "fatal" => C20_Writes = 0

\* a step that writes to a sink is taken after the assembly has returned a document with
\* an included file, and no sink has been written before
C20_WriteAfterAssembly ==
    <<sinks.stdout, sinks.file, sinks.clipboard>>' # <<sinks.stdout, sinks.file, sinks.clipboard>>
        => pc = "generated" /\ err = NoErr /\ fileCount >= 1 /\ C20_Writes = 0

\* C20 (amended): every run writes its sink at most once, in a step taken after alias
\* expansion, validation, the dependency check, selection and assembly have succeeded
\* with an included file; a run that ends in a fatal error detected before the sink
\* write (assembly with no included file among them) has written nothing to any sink,
\* and the only fatal run with a write is a failed write of the output file.
C20_SinkWrittenOnceAfterSuccess ==
    /\ [](/\ C20_Writes <= 1
          /\ C20_Writes = 1 => C20_WrittenToChosenSink
          /\ (pc = "fatal" /\ err.msg # "Error writing to output file") => C20_Writes = 0
          /\ (pc = "fatal" /\ C20_Writes = 1) =>
                 /\ sinks.file = <<SubSeq(doc, 1, Len(doc) - 1)>>
                 /\ sinks.stdout = <<>> /\ sinks.clipboard = <<>>
          /\ (pc # "fatal" /\ C20_Writes = 1) => sinks.file \in {<<>>, <<doc>>})
    /\ [][C20_WriteAfterAssembly]_vars

\* a run has written its document to the output file and ended
C20_Witness ==
    /\ pc = "done"
    /\ sinks.file = <<doc>> /\ C20_Writes = 1
    /\ fileCount >= 1

\* a run with an output file has ended in the fatal error of an assembly without files
C20_WitnessFatal ==
    /\ pc = "fatal" /\ err.msg = "no files were included in the prompt"
    /\ cli.outputFile # <<>>
    /\ C20_Writes = 0

\* the command line has -h, --list-aliases or --dry-run
C21_HelpRequested == \E k \in 1..Len(osArgs) : IsFlagNamed(osArgs[k], n_h)
C21_DryRunRequested == \E k \in 1..Len(osArgs) : IsFlagNamed(osArgs[k], n_dry_run)
C21_Requested == C21_HelpRequested \/ listAliasesRequested \/ C21_DryRunRequested

\* the run has ended
C21_Ended == pc \in {"exit0", "done", "fatal"}

C21_ExpansionErrors == { "alias not found", "flag -a requires an argument" }

\* the fatal errors of the stages between the help exit and the dry run
C21_ValidationErrors ==
    { "Cannot use both --stdout and --output options at the same time.",
      "you are not inside a Git repository or git is not installed." }

RECURSIVE C23_OpenQuote(_)
C23_OpenQuote(k) ==
    IF k = 1 THEN ""
    ELSE IF C23_OpenQuote(k - 1) = ""
         THEN (IF locals.options[k - 1] \in {"\"", "'"} THEN locals.options[k - 1] ELSE "")
         ELSE (IF locals.options[k - 1] = C23_OpenQuote(k - 1) THEN "" ELSE C23_OpenQuote(k - 1))

\* character k opens or closes a quote / separates tokens / is a character of a token
C23_IsQuoteMark(k) ==
    \/ C23_OpenQuote(k) = "" /\ locals.options[k] \in {"\"", "'"}
    \/ C23_OpenQuote(k) # "" /\ locals.options[k] = C23_OpenQuote(k)
C23_IsSeparator(k) == C23_OpenQuote(k) = "" /\ locals.options[k] \in {" ", "\t"}
C23_IsLiteral(k) == ~C23_IsQuoteMark(k) /\ ~C23_IsSeparator(k)

C23_Literals == { k \in 1..Len(locals.options) : C23_IsLiteral(k) }

\* the literal characters that begin a token: the first one, and each one with a
\* separator between it and the literal character before it
C23_Starts ==
    { p \in C23_Literals :
        \A q \in C23_Literals :
            (q < p /\ \A m \in C23_Literals : ~(q < m /\ m < p))
                => \E k \in (q + 1)..(p - 1) : C23_IsSeparator(k) }

\* the number of the token that literal character p belongs to
C23_TokenOf(p) == Cardinality({ q \in C23_Starts : q <= p })

\* the literal characters of token t, in the order of the option string
C23_Token(t) ==
    LET InToken(k) == C23_IsLiteral(k) /\ C23_TokenOf(k) = t
        at == SelectSeq([k \in 1..Len(locals.options) |-> k], InToken)
    IN  [j \in 1..Len(at) |-> locals.options[at[j]]]

\* C23: ExpandAlias returns the tokens of the option string: runs of spaces and tabs
\* outside quotes separate tokens, the characters between a quote and its closing quote
\* (the other quote character among them) stay in one token and the two quote marks are
\* removed, the empty string has no token, and after a quote that is never closed the
\* rest of the string is the end of the last token.
C23_ShellLikeTokens ==
    pc = "tokenized" =>
        /\ Len(args) = Cardinality(C23_Starts)
        /\ \A t \in 1..Len(args) : args[t] = C23_Token(t) /\ args[t] # <<>>
        /\ locals.options = <<>> => args = <<>>
        /\ \A o \in 1..(Len(locals.options) - 1) :
             (C23_OpenQuote(o) = "" /\ \A k \in (o + 1)..(Len(locals.options) + 1) : C23_OpenQuote(k) # "")
                => /\ Len(args) >= 1
                   /\ HasSuffix(args[Len(args)], SubSeq(locals.options, o + 1, Len(locals.options)))

\* an option string with a separator and the other quote character inside a closed quote
C23_Witness ==
    /\ pc = "tokenized"
    /\ C23_OpenQuote(Len(locals.options) + 1) = ""
    /\ \E t \in 1..Len(args) : {" ", "'"} \subseteq Range(args[t])
-----------------------------------------------------------------------------
(* C22: quiet mode and the diagnostic stream.                              *)

\* C22: under quiet mode no non-fatal diagnostic is written to the diagnostic
\* stream, whichever stage raises it.  filterAndEnrichFiles writes its
\* "Cannot stat file" warning without looking at any quiet flag, so the
\* statement fails for a listed file that cannot be stat'ed.
C22_QuietIsSilent == cli.quietMode => diag = <<>>

\* what does hold: the lines of writeFiles are suppressed under quiet mode,
\* and every line written under quiet mode is a stat warning
C22_OnlyStatWarningsUnderQuiet ==
    cli.quietMode =>
        \A i \in 1..Len(diag) : diag[i].kind = "Warning: Cannot stat file"
-----------------------------------------------------------------------------
(* C24: --stdout and --output together.                                    *)

\* both sinks were asked for: customParseArgs has set useStdout and an output path
C24_BothRequested == cli.useStdout /\ cli.outputFile # <<>>

\* nothing was listed, assembled or written
C24_NothingDone ==
    /\ C20_Writes = 0 /\ sinks = NoSinks
    /\ result = <<>> /\ doc = <<>> /\ fileCount = 0 /\ contentItems = <<>>

\* C24 as stated: if both --stdout and --output (with a path) are present after alias
\* expansion, the run fails.  Fails: the help exit comes before the validation of the
\* output options, so -h --stdout --output out.txt ends with status zero.
C24_AsStated ==
    (C24_BothRequested /\ C21_Ended) => pc = "fatal"

\* C24 (amended): when both --stdout and --output (with a path) are present after alias
\* expansion, the run ends right after the interpretation of the arguments: with the help
\* text and status zero when -h is present too, otherwise with the fatal error "Cannot
\* use both --stdout and --output options at the same time."; in both cases before the
\* dependency check, any file listing and any write to stdout, the file or the clipboard.
C24_SinksAreExclusive ==
    C24_BothRequested =>
        /\ pc \in {"parsed", "exit0", "fatal"}
        /\ C24_NothingDone
        /\ pc = "exit0" => cli.showHelp
        /\ pc = "fatal" =>
              /\ ~cli.showHelp
              /\ err.msg = "Cannot use both --stdout and --output options at the same time."

\* the run --stdout --output out.txt -q A has ended with the validation error
C24_Witness ==
    /\ C24_BothRequested /\ pc = "fatal" /\ cli.questions # <<>>
    /\ err.msg = "Cannot use both --stdout and --output options at the same time."
    /\ C24_NothingDone
-----------------------------------------------------------------------------
(* C25: the multi-valued flags accumulate.                                 *)

\* list s is list t with further elements appended
C25_Extends(s, t) == Len(s) <= Len(t) /\ SubSeq(t, 1, Len(s)) = s

\* the flag token that governs token k of args: the nearest token before k that begins
\* with '-', <<>> when there is none
C25_Governing(k) ==
    IF \E j \in 1..(k - 1) : args[j][1] = "-"
    THEN args[CHOOSE j \in 1..(k - 1) :
                /\ args[j][1] = "-"
                /\ \A m \in (j + 1)..(k - 1) : args[m][1] # "-"]
    ELSE <<>>

\* the non-flag tokens among the first k tokens of args that follow flag -n or --n
RECURSIVE C25_ValuesOf(_, _)
C25_ValuesOf(n, k) ==
    IF k = 0 THEN <<>>
    ELSE C25_ValuesOf(n, k - 1) \o
         (IF args[k][1] # "-" /\ C25_Governing(k) \in {<<"-">> \o n, <<"-", "-">> \o n}
          THEN <<args[k]>> ELSE <<>>)

\* the contents of the order-log entries of one type
C25_Logged(type) ==
    LET RECURSIVE upTo(_)
        upTo(k) == IF k = 0 THEN <<>>
                   ELSE upTo(k - 1) \o (IF cli.argOrder[k].Type = type
                                        THEN <<cli.argOrder[k].Content>> ELSE <<>>)
    IN  upTo(Len(cli.argOrder))

\* when customParseArgs returns, each list holds every value that follows its flag
C25_AllValuesRecorded ==
    pc = "parsed" =>
        /\ cli.includePatterns = C25_ValuesOf(n_i, Len(args))
        /\ cli.excludePatterns = C25_ValuesOf(n_e, Len(args))
        /\ cli.forceIncludePatterns = C25_ValuesOf(n_f, Len(args))
        /\ cli.questions = C25_ValuesOf(n_q, Len(args))
        /\ cli.questionFiles = C25_ValuesOf(n_qf, Len(args))
        /\ C25_Logged("include") = C25_ValuesOf(n_i, Len(args))
        /\ C25_Logged("force_include") = C25_ValuesOf(n_f, Len(args))
        /\ C25_Logged("question") = C25_ValuesOf(n_q, Len(args))
        /\ C25_Logged("question_file") = C25_ValuesOf(n_qf, Len(args))

\* a step of the interpreter only appends to the five lists and to the order log
C25_OnlyAppends ==
    /\ C25_Extends(cli.includePatterns, cli'.includePatterns)
    /\ C25_Extends(cli.excludePatterns, cli'.excludePatterns)
    /\ C25_Extends(cli.forceIncludePatterns, cli'.forceIncludePatterns)
    /\ C25_Extends(cli.questions, cli'.questions)
    /\ C25_Extends(cli.questionFiles, cli'.questionFiles)
    /\ C25_Extends(cli.argOrder, cli'.argOrder)

\* C25: every non-flag token that follows -i, -e, -f, -q or -qf, up to the next token
\* beginning with '-', is appended as a further value of that flag, each value of -i, -f,
\* -q and -qf with its own order-log entry, and no step of the interpreter removes or
\* overwrites a value already recorded.
C25_MultiValuedFlagsAccumulate ==
    [][C25_OnlyAppends]_vars /\ [](C25_AllValuesRecorded)

\* -i A B has been interpreted: two include patterns, two order-log entries
C25_Witness ==
    /\ pc = "parsed"
    /\ args = <<Dash(n_i), t_A, t_B>>
    /\ cli.includePatterns = <<t_A, t_B>>
    /\ cli.argOrder = << [Type |-> "include", Content |-> t_A, Order |-> 0],
                         [Type |-> "include", Content |-> t_B, Order |-> 1] >>
-----------------------------------------------------------------------------
(* C26: a value-taking flag without a value.                               *)

\* the token is -n or --n for one of the six value-taking flags of the claim
C26_TakesValue(token) ==
    \E n \in { n_i, n_e, n_f, n_q, n_qf, n_output } :
        token \in { <<"-">> \o n, <<"-", "-">> \o n }

\* the loop is at a value-taking flag that is the last token or is followed by a token
\* beginning with '-'
C26_FlagWithoutValue ==
    /\ pc = "parse" /\ cli.i <= Len(args)
    /\ C26_TakesValue(args[cli.i])
    /\ (cli.i = Len(args) \/ args[cli.i + 1][1] = "-")

\* the iteration records nothing and moves to the next token only
C26_RecordsNothing ==
    /\ cli'.includePatterns = cli.includePatterns
    /\ cli'.excludePatterns = cli.excludePatterns
    /\ cli'.forceIncludePatterns = cli.forceIncludePatterns
    /\ cli'.questions = cli.questions
    /\ cli'.questionFiles = cli.questionFiles
    /\ cli'.outputFile = cli.outputFile
    /\ cli'.argOrder = cli.argOrder /\ cli'.orderCounter = cli.orderCounter
    /\ cli'.i = cli.i + 1

\* an iteration at a token beginning with '-' takes it as the current flag
C26_TakenAsFlag ==
    (pc = "parse" /\ cli.i <= Len(args) /\ args[cli.i][1] = "-")
        => cli'.currentFlag = args[cli.i]

\* no token beginning with '-' is ever recorded as a value
C26_NoFlagAsValue ==
    /\ \A l \in { cli.includePatterns, cli.excludePatterns, cli.forceIncludePatterns,
                  cli.questions, cli.questionFiles } :
          \A k \in 1..Len(l) : l[k][1] # "-"
    /\ \A k \in 1..Len(cli.argOrder) :
          cli.argOrder[k].Content # <<>> => cli.argOrder[k].Content[1] # "-"
    /\ cli.outputFile # <<>> => cli.outputFile[1] # "-"

\* C26: when a value-taking flag (-i, -e, -f, -q, -qf, --output) is the last token or is
\* immediately followed by a token beginning with '-', the flag records no value and
\* creates no order-log entry, all lists recorded so far are left unchanged, and the
\* following token is interpreted as a flag in its own right.
C26_FlagLikeValueNotSupported ==
    /\ [][(C26_FlagWithoutValue => C26_RecordsNothing) /\ C26_TakenAsFlag]_vars
    /\ [](C26_NoFlagAsValue)

\* -i -q A has been interpreted: no include pattern, -q taken as a flag with its value
C26_Witness ==
    /\ pc = "parsed"
    /\ args = <<Dash(n_i), Dash(n_q), t_A>>
    /\ cli.includePatterns = <<>>
    /\ cli.questions = <<t_A>>
    /\ Len(cli.argOrder) = 1
-----------------------------------------------------------------------------
(* C27: raw mode with questions and no pattern.                            *)

\* the errors that report an empty selection
C27_NoFilesErrors ==
    { "no files matched the specified patterns",
      "no files found in the Git repository",
      "no files were included in the prompt" }

\* raw mode, at least one question, no -i and no -f pattern, no informational action
C27_QuestionsOnly ==
    /\ cli.rawMode /\ cli.questions # <<>>
    /\ cli.includePatterns = <<>> /\ cli.forceIncludePatterns = <<>>
    /\ ~C21_Requested

\* C27: in raw mode with at least one question and no -i or -f pattern, a run with no
\* selected files is allowed (questions-only mode): it does not fail with a no-files
\* error and it produces a document made of the questions.  Fails: the test on
\* allFileInfos lets the run pass, and then Generate returns fileCount 0 and
\* processFilesAndGeneratePrompt returns "no files were included in the prompt".
C27_QuestionsOnlyAllowed ==
    C27_QuestionsOnly => ~(pc = "fatal" /\ err.msg \in C27_NoFilesErrors)

\* what the code does: no questions-only run ever writes a document
C27_QuestionsOnlyNeverWritten ==
    C27_QuestionsOnly => (pc # "done" /\ C20_Writes = 0)
-----------------------------------------------------------------------------
(* C28: the aggregated view and the positional view.                       *)

\* the order log has an entry of the type
C28_HasEntry(type) == \E k \in 1..Len(cli.argOrder) : cli.argOrder[k].Type = type

\* C28: after customParseArgs has processed any token stream, the include list, the
\* force-include list, the question list and the question-file list each equal the
\* contents of the order-log entries of that kind taken in log order, and the clipboard
\* flag is set if and only if the log has a clipboard entry.
C28_ViewsAgree ==
    pc = "parsed" =>
        /\ cli.includePatterns = C25_Logged("include")
        /\ cli.forceIncludePatterns = C25_Logged("force_include")
        /\ cli.questions = C25_Logged("question")
        /\ cli.questionFiles = C25_Logged("question_file")
        /\ cli.useClipboard <=> C28_HasEntry("clipboard")

\* -q A -c has been interpreted
C28_Witness ==
    /\ pc = "parsed"
    /\ args = <<Dash(n_q), t_A, Dash(n_c)>>
    /\ cli.useClipboard /\ cli.questions = <<t_A>>
    /\ cli.argOrder = << [Type |-> "question", Content |-> t_A, Order |-> 0],
                         [Type |-> "clipboard", Content |-> <<>>, Order |-> 1] >>
-----------------------------------------------------------------------------
(* C29: how often a path is rendered.                                      *)

\* the paths of the repository
C29_Paths == Range(RepoListed) \cup Range(RepoIgnored)

\* the number of file blocks of the document that render the path
C29_Blocks(path) ==
    Cardinality({ k \in 1..Len(doc) : doc[k].kind = "file" /\ doc[k].content = path })

\* the -i or -f argument behind entry k of the order log selects the path and the
\* generator can render it
C29_Selects(k, path) ==
    /\ cli.argOrder[k].Type \in {"include", "force_include"}
    /\ \E info \in Range(ListGitFiles(fileConfigOfItem(cli.argOrder[k], cli))) :
          info.Path = path /\ isWritten(info, MaxFileSize)

\* the document of the run has been assembled
C29_Assembled == pc \in {"generated", "done"}

C29_WitnessDefault ==
    /\ pc = "done" /\ ~cli.rawMode
    /\ cli.includePatterns = <<p_a_go, p_a_go>>
    /\ C29_Blocks(p_a_go) = 1 /\ fileCount = 1
-----------------------------------------------------------------------------
(* C30: the position of -e on the command line.                            *)

\* token k of the command line is -e and token k + 1 is its value
C30_ExcludeAt(k) ==
    /\ k < Len(osArgs)
    /\ osArgs[k] \in { <<"-">> \o n_e, <<"-", "-">> \o n_e }
    /\ osArgs[k + 1][1] # "-"

\* the command line without tokens k and k + 1
C30_Without(k) == SubSeq(osArgs, 1, k - 1) \o SubSeq(osArgs, k + 2, Len(osArgs))

\* the places of a token list where an argument can be put: before a flag, or at the end
C30_Places(l) == { j \in 0..Len(l) : j = Len(l) \/ l[j + 1][1] = "-" }

\* the command lines obtained by moving one -e argument to another place
C30_Moved ==
    { SubSeq(C30_Without(k), 1, j) \o <<osArgs[k], osArgs[k + 1]>>
        \o SubSeq(C30_Without(k), j + 1, Len(C30_Without(k))) :
      <<k, j>> \in { t \in (1..Len(osArgs)) \X (0..Len(osArgs)) :
                       C30_ExcludeAt(t[1]) /\ t[2] \in C30_Places(C30_Without(t[1])) } }

\* the options customParseArgs records for a command line, after alias expansion
C30_Options(l) == customParseArgs(ZeroOptions, expandAliasesInArgs(l, aliases).expanded)

\* the outcome of the run as the state holds it after processFilesAndGeneratePrompt
C30_Outcome ==
    [err |-> err, promptText |-> doc, fileCount |-> fileCount,
     contentItems |-> contentItems, allFileInfos |-> result]

\* the order log has no entry made from a -e argument
C30_ExcludeNotLogged ==
    /\ \A k \in 1..Len(cli.argOrder) :
          cli.argOrder[k].Type \in
             {"include", "force_include", "question", "question_file", "clipboard"}
    /\ Len(cli.argOrder) =
          Len(cli.includePatterns) + Len(cli.forceIncludePatterns) + Len(cli.questions)
          + Len(cli.questionFiles)
          + Cardinality({ k \in 1..Len(args) : args[k] \in {<<"-", "c">>, <<"-", "-", "c">>} })

\* C30: moving a -e argument to any other place on the command line (before or after any
\* -i, -f or -q) leaves the selected files unchanged, in default mode and for every
\* per-argument file group in raw mode: every exclude pattern is applied to every include
\* group and -e is never entered in the order log.
C30_ExcludeIsPositionIndependent ==
    /\ pc = "parsed" =>
          /\ C30_ExcludeNotLogged
          /\ \A l \in C30_Moved :
                [C30_Options(l) EXCEPT !.currentFlag = cli.currentFlag] = cli
    /\ pc = "generated" =>
          \A l \in C30_Moved :
             processFilesAndGeneratePrompt(C30_Options(l), clipboard) = C30_Outcome

\* --raw -i a.go -a go_files -e src/: the group of a.go holds a.go, the group of
\* src/**/*.go is emptied by the exclude pattern that comes after it
C30_Witness ==
    /\ pc = "generated" /\ cli.rawMode
    /\ C30_Moved # {}
    /\ cli.excludePatterns = <<g_src_slash>>
    /\ Len(contentItems) = 2
    /\ contentItems[1].Files # <<>> /\ contentItems[2].Files = <<>>
    /\ contentItems[2].FilePatterns = <<g_src_ss_go>>

=============================================================================
